---- MODULE Spec2Model ----
(***************************************************************************)
(* Model of the esperanto-analyzer word dispatcher (MorphologicalAnalyzer), *)
(* its ten part-of-speech analyzers, the sentence analyzer and the          *)
(* package-level convenience functions.                                     *)
(*                                                                          *)
(* A JavaScript string is modelled as a sequence of characters.  A          *)
(* character is a one-letter string, except the six circumflexed/breved     *)
(* Esperanto letters, written in the x-convention ("cx" is c-circumflex,    *)
(* "ux" is u-breve, "CX" is the capital), and the white-space characters    *)
(* other than the blank ("TAB", "NL").  Confidence scores are kept in       *)
(* hundredths (0.5 is 50, 1.0 is 100); every sum the code forms is exact in *)
(* IEEE double arithmetic, so the scaling loses nothing.                    *)
(***************************************************************************)
EXTENDS Integers, Sequences, FiniteSets, TLC

(***************************************************************************)
(* Characters                                                               *)
(***************************************************************************)
LowerAscii ==
  << "a","b","c","d","e","f","g","h","i","j","k","l","m",
     "n","o","p","q","r","s","t","u","v","w","x","y","z" >>

UpperAscii ==
  << "A","B","C","D","E","F","G","H","I","J","K","L","M",
     "N","O","P","Q","R","S","T","U","V","W","X","Y","Z" >>

LowerHat == << "cx","gx","jx","hx","sx","ux" >>

UpperHat == << "CX","GX","JX","HX","SX","UX" >>

LowerLetters == LowerAscii \o LowerHat

UpperLetters == UpperAscii \o UpperHat

Range(s) == { s[i] : i \in DOMAIN s }

LowerLetterSet == Range(LowerLetters)

UpperLetterSet == Range(UpperLetters)

\* the class [a-zA-Z + the twelve accented letters] used by the analyzers
EsperantoLetter == LowerLetterSet \cup UpperLetterSet

\* the characters String.prototype.trim removes and the regex class \s matches
WhiteSpace == { " ", "TAB", "NL" }

\* String.prototype.toLowerCase on one character
LowerMap ==
  [ c \in UpperLetterSet |->
      LowerLetters[CHOOSE i \in DOMAIN UpperLetters : UpperLetters[i] = c] ]

toLowerCaseChar(c) == IF c \in UpperLetterSet THEN LowerMap[c] ELSE c

(***************************************************************************)
(* String primitives of the JavaScript runtime                              *)
(***************************************************************************)
toLowerCase(w) == [ i \in DOMAIN w |-> toLowerCaseChar(w[i]) ]

endsWith(w, s) ==
  /\ Len(s) <= Len(w)
  /\ \A i \in 1..Len(s) : w[Len(w) - Len(s) + i] = s[i]

startsWith(w, s) ==
  /\ Len(s) <= Len(w)
  /\ \A i \in 1..Len(s) : w[i] = s[i]

\* String.prototype.includes: s occurs as a substring of w
includes(w, s) ==
  \E k \in 0..(Len(w) - Len(s)) : \A i \in 1..Len(s) : w[k + i] = s[i]

\* w.slice(0, -n) for 0 < n
sliceEnd(w, n) == IF n >= Len(w) THEN << >> ELSE SubSeq(w, 1, Len(w) - n)

\* w.substring(n)
substring(w, n) == IF n >= Len(w) THEN << >> ELSE SubSeq(w, n + 1, Len(w))

RECURSIVE TrimStart(_)
TrimStart(w) ==
  IF w # << >> /\ Head(w) \in WhiteSpace THEN TrimStart(Tail(w)) ELSE w

RECURSIVE TrimEnd(_)
TrimEnd(w) ==
  IF w # << >> /\ w[Len(w)] \in WhiteSpace
  THEN TrimEnd(SubSeq(w, 1, Len(w) - 1))
  ELSE w

\* a trim that removes nothing
TrimNothing(w) == w

\* String.prototype.trim
trim(w) == TrimEnd(TrimStart(w))

\* every character of w lies in the class cls
AllIn(w, cls) == \A i \in DOMAIN w : w[i] \in cls

\* the regex shape  ^ cls{min,} (s1|s2|...) $  for a set of literal suffixes
ClassThenSuffix(w, cls, min, suffixes) ==
  \E s \in suffixes :
    /\ endsWith(w, s)
    /\ Len(w) - Len(s) >= min
    /\ AllIn(SubSeq(w, 1, Len(w) - Len(s)), cls)

(***************************************************************************)
(* The fixed vocabularies of the analyzers                                  *)
(***************************************************************************)
\* AdverbMorphologicalAnalyzer.SPECIAL_ADVERBS
SPECIAL_ADVERBS ==
  <<
    <<"n","u","n">>, <<"t","u","j">>, <<"j","a","m">>,
    <<"a","n","k","o","r","a","ux">>, <<"b","a","l","d","a","ux">>,
    <<"h","i","e","r","a","ux">>, <<"h","o","d","i","a","ux">>,
    <<"m","o","r","g","a","ux">>, <<"t","r","e">>, <<"p","l","i">>,
    <<"p","l","e","j">>, <<"t","r","o">>, <<"n","u","r">>, <<"e","cx">>,
    <<"p","r","e","s","k","a","ux">>, <<"a","p","e","n","a","ux">>,
    <<"cx","i","r","k","a","ux">>, <<"j","e","n">>, <<"f","o","r">>,
    <<"h","e","j","m">>, <<"e","k","s","t","e","r","e","n">>,
    <<"s","u","p","r","e","n">>, <<"m","a","l","s","u","p","r","e","n">>,
    <<"a","n","t","a","ux","e","n">>,
    <<"m","a","l","a","n","t","a","ux","e","n">>,
    <<"d","e","k","s","t","r","e","n">>,
    <<"m","a","l","d","e","k","s","t","r","e","n">>, <<"i","e","n">>,
    <<"n","i","e","n">>, <<"t","i","e","n">>, <<"cx","i","e","n">>
  >>

\* InterjectionMorphologicalAnalyzer.INTERJECTIONS
INTERJECTIONS ==
  <<
    <<"a","hx","!">>, <<"a","j","!">>, <<"b","a","!">>,
    <<"b","a","f","!">>, <<"b","a","j","!">>, <<"b","e","!">>,
    <<"b","i","s","!">>, <<"d","i","a","b","l","e","!">>, <<"e","k","!">>,
    <<"f","i","!">>, <<"f","u","!">>, <<"gx","i","s","!">>,
    <<"h","a","!">>, <<"h","a"," ","l","o","!">>, <<"h","e","!">>,
    <<"h","e","j","!">>, <<"h","o","!">>, <<"h","o"," ","v","e","!">>,
    <<"h","o","j","!">>, <<"h","o","l","a","!">>, <<"h","u","!">>,
    <<"h","u","p","!">>, <<"h","u","r","a","!">>, <<"l","o","!">>,
    <<"l","u"," ","l","u","!">>, <<"n","u","!">>, <<"u","f","!">>,
    <<"u","p","!">>, <<"ux","a","!">>, <<"v","e","!">>,
    <<"v","o","l","a","p","u","k","a","jx","o","!">>, <<"j","e","n">>
  >>

\* PrepositionMorphologicalAnalyzer.PREPOSITIONS
PREPOSITIONS ==
  <<
    <<"a","l">>, <<"a","n","s","t","a","t","a","ux">>,
    <<"a","n","t","a","ux">>, <<"a","p","u","d">>, <<"c","e">>,
    <<"cx","e">>, <<"cx","i","r","k","a","ux">>, <<"d","a">>, <<"d","e">>,
    <<"d","u","m">>, <<"e","k","s","t","e","r">>, <<"e","l">>, <<"e","n">>,
    <<"e","s","t","a","s">>, <<"f","o","r">>, <<"gx","i","s">>,
    <<"i","n","t","e","r">>, <<"j","e">>, <<"k","o","n","t","r","a","ux">>,
    <<"k","r","o","m">>, <<"k","u","n">>, <<"l","a","ux">>,
    <<"m","a","l","g","r","a","ux">>, <<"p","e","r">>, <<"p","o">>,
    <<"p","o","r">>, <<"p","o","s","t">>, <<"p","r","e","t","e","r">>,
    <<"p","r","i">>, <<"p","r","o">>, <<"s","e","n">>, <<"s","u","b">>,
    <<"s","u","p","e","r">>, <<"s","u","r">>, <<"t","r","a">>,
    <<"t","r","a","n","s">>, <<"cx","u">>
  >>

\* PrepositionMorphologicalAnalyzer.COMPOUND_PREPOSITIONS
COMPOUND_PREPOSITIONS ==
  <<
    <<"a","n","s","t","a","t","a","ux"," ","o","l">>,
    <<"d","a","n","k","'"," ","a","l">>,
    <<"d","a","n","k","e"," ","a","l">>,
    <<"k","u","n","e"," ","k","u","n">>,
    <<"r","i","l","a","t","e"," ","a","l">>,
    <<"s","p","i","t","e"," ","a","l">>,
    <<"n","o","m","e"," ","p","r","i">>,
    <<"k","o","n","c","e","r","n","e"," ","p","r","i">>
  >>

\* ConjunctionMorphologicalAnalyzer.CONJUNCTIONS
CONJUNCTIONS ==
  <<
    <<"a","n","t","a","ux"," ","k","i","a","m">>,
    <<"a","n","t","a","ux"," ","o","l">>, <<"a","ux">>, <<"cx","a","r">>,
    <<"cx","u">>, <<"k">>, <<"k","a","j">>, <<"k","a","ux">>, <<"k","e">>,
    <<"k","i","a","l">>, <<"k","i","a","m">>, <<"k","i","e">>,
    <<"k","i","e","l">>, <<"k","u","n","e"," ","k","u","n">>,
    <<"k","v","a","n","k","a","m">>, <<"k","v","a","z","a","ux">>,
    <<"m","i","n","u","s">>, <<"n","e","k">>, <<"o","l">>,
    <<"p","l","u","s">>, <<"s","e">>, <<"s","e","d">>, <<"t","i","a","l">>
  >>

\* NumeralMorphologicalAnalyzer.BASIC_NUMBERS
BASIC_NUMBERS ==
  <<
    <<"n","u","l">>, <<"u","n","u">>, <<"d","u">>, <<"t","r","i">>,
    <<"k","v","a","r">>, <<"k","v","i","n">>, <<"s","e","s">>,
    <<"s","e","p">>, <<"o","k">>, <<"n","a","ux">>, <<"d","e","k">>,
    <<"c","e","n","t">>, <<"m","i","l">>, <<"m","i","l","i","o","n">>,
    <<"m","i","l","i","a","r","d">>
  >>

\* NumeralMorphologicalAnalyzer.SPECIAL_NUMBERS
SPECIAL_NUMBERS ==
  <<
    <<"a","m","b","a","ux">>, <<"p","a","r","o">>, <<"d","u","o","p","o">>,
    <<"t","r","i","o">>, <<"k","v","a","r","t","e","t","o">>,
    <<"d","e","k","u","m","o">>, <<"p","e","c","e","n","t","o">>,
    <<"p","r","o","m","i","l","o">>
  >>

\* PronounMorphologicalAnalyzer.PERSONAL_PRONOUNS
PERSONAL_PRONOUNS ==
  <<
    <<"m","i">>, <<"v","i">>, <<"l","i">>, <<"sx","i">>, <<"gx","i">>,
    <<"n","i">>, <<"i","l","i">>, <<"o","n","i">>, <<"s","i">>
  >>

\* PronounMorphologicalAnalyzer.POSSESSIVE_ROOTS
POSSESSIVE_ROOTS ==
  <<
    <<"m","i">>, <<"v","i">>, <<"l","i">>, <<"sx","i">>, <<"gx","i">>,
    <<"n","i">>, <<"i","l","i">>, <<"o","n","i">>, <<"s","i">>
  >>

\* PronounMorphologicalAnalyzer.CORRELATIVE_BEGINNINGS
CORRELATIVE_BEGINNINGS ==
  <<
    <<"k","i">>, <<"t","i">>, <<"i">>, <<"cx","i">>, <<"n","e","n","i">>
  >>

\* PronounMorphologicalAnalyzer.CORRELATIVE_ENDINGS
CORRELATIVE_ENDINGS ==
  <<
    <<"u">>, <<"o">>, <<"a">>, <<"e">>, <<"a","l">>, <<"a","m">>,
    <<"o","m">>, <<"e","l">>
  >>

\* PronounMorphologicalAnalyzer.SPECIAL_PRONOUNS
SPECIAL_PRONOUNS ==
  <<
    <<"cx","i">>, <<"m","e","m">>, <<"s","a","m","a">>, <<"t","i","a">>,
    <<"t","i","a","l">>, <<"t","i","a","m">>, <<"t","i","e">>,
    <<"t","i","e","l">>, <<"t","i","o","m">>
  >>

\* VerbMorphologicalAnalyzer.VERB_ENDINGS
VERB_ENDINGS ==
  <<
    <<"i">>, <<"a","s">>, <<"i","s">>, <<"o","s">>, <<"u","s">>, <<"u">>
  >>

\* VerbMorphologicalAnalyzer.PARTICIPLE_ENDINGS
PARTICIPLE_ENDINGS ==
  <<
    <<"a","n","t","a">>, <<"a","n","t","e">>, <<"a","n","t","a","j">>,
    <<"a","n","t","a","j","n">>, <<"a","n","t","a","n">>,
    <<"i","n","t","a">>, <<"i","n","t","e">>, <<"i","n","t","a","j">>,
    <<"i","n","t","a","j","n">>, <<"i","n","t","a","n">>,
    <<"o","n","t","a">>, <<"o","n","t","e">>, <<"o","n","t","a","j">>,
    <<"o","n","t","a","j","n">>, <<"o","n","t","a","n">>, <<"a","t","a">>,
    <<"a","t","e">>, <<"a","t","a","j">>, <<"a","t","a","j","n">>,
    <<"a","t","a","n">>, <<"i","t","a">>, <<"i","t","e">>,
    <<"i","t","a","j">>, <<"i","t","a","j","n">>, <<"i","t","a","n">>,
    <<"o","t","a">>, <<"o","t","e">>, <<"o","t","a","j">>,
    <<"o","t","a","j","n">>, <<"o","t","a","n">>
  >>

\* calculateConfidence: the local list basicNumbers
basicNumbers ==
  <<
    <<"n","u","l">>, <<"u","n","u">>, <<"d","u">>, <<"t","r","i">>,
    <<"k","v","a","r">>, <<"k","v","i","n">>, <<"s","e","s">>,
    <<"s","e","p">>, <<"o","k">>, <<"n","a","ux">>, <<"d","e","k">>,
    <<"c","e","n","t">>, <<"m","i","l">>, <<"m","i","l","i","o","n">>,
    <<"m","i","l","i","a","r","d">>
  >>

\* calculateConfidence: the local list correlativePronouns
correlativePronouns ==
  <<
    <<"k","i","u">>, <<"k","i","o">>, <<"k","i","a">>, <<"k","i","e">>,
    <<"k","i","a","l">>, <<"k","i","a","m">>, <<"k","i","o","m">>,
    <<"k","i","e","l">>, <<"t","i","u">>, <<"t","i","o">>, <<"t","i","a">>,
    <<"t","i","e">>, <<"t","i","a","l">>, <<"t","i","a","m">>,
    <<"t","i","o","m">>, <<"t","i","e","l">>, <<"i","u">>, <<"i","o">>,
    <<"i","a">>, <<"i","e">>, <<"i","a","l">>, <<"i","a","m">>,
    <<"i","o","m">>, <<"i","e","l">>, <<"cx","i","u">>, <<"cx","i","o">>,
    <<"cx","i","a">>, <<"cx","i","e">>, <<"cx","i","a","l">>,
    <<"cx","i","a","m">>, <<"cx","i","o","m">>, <<"cx","i","e","l">>,
    <<"n","e","n","i","u">>, <<"n","e","n","i","o">>,
    <<"n","e","n","i","a">>, <<"n","e","n","i","e">>,
    <<"n","e","n","i","a","l">>, <<"n","e","n","i","a","m">>,
    <<"n","e","n","i","o","m">>, <<"n","e","n","i","e","l">>
  >>

(***************************************************************************)
(* The match predicates of the ten analyzers                                *)
(***************************************************************************)
\* the optional agreement tail (j?n?) of the regular expressions
JN == { << >>, <<"j">>, <<"n">>, <<"j","n">> }

\* the literals s (j?n?) for one literal s
WithJN(s) == { s \o t : t \in JN }

\* BaseMorphologicalAnalyzer.match with NounMorphologicalAnalyzer.matchRegex
NounMatch(w) == ClassThenSuffix(w, EsperantoLetter, 2, WithJN(<<"o">>))

\* VerbMorphologicalAnalyzer.ALL_ENDINGS
ALL_ENDINGS == VERB_ENDINGS \o PARTICIPLE_ENDINGS

\* BaseMorphologicalAnalyzer.match with VerbMorphologicalAnalyzer.matchRegex
VerbMatch(w) == ClassThenSuffix(w, EsperantoLetter, 2, Range(ALL_ENDINGS))

\* BaseMorphologicalAnalyzer.match with AdjectiveMorphologicalAnalyzer.matchRegex
AdjectiveMatch(w) == ClassThenSuffix(w, EsperantoLetter, 2, WithJN(<<"a">>))

\* AdverbMorphologicalAnalyzer.matchRegex (flags iu: tested on the folded word)
AdverbRegex(w) ==
  \/ toLowerCase(w) \in Range(SPECIAL_ADVERBS)
  \/ ClassThenSuffix(toLowerCase(w), LowerLetterSet, 2, { <<"e">> })

\* AdverbMorphologicalAnalyzer.isSpecialAdverb
isSpecialAdverb(w) == toLowerCase(w) \in Range(SPECIAL_ADVERBS)

\* AdverbMorphologicalAnalyzer.hasValidEsperantoCharacters
hasValidEsperantoCharacters(w) ==
  /\ w # << >>
  /\ AllIn(toLowerCase(w), LowerLetterSet)

\* the class [^aeiou + the six accented letters] of the 3-consonant pattern
NotVowelOrHat == { "a","e","i","o","u" } \cup Range(LowerHat)

\* a run of at least three characters outside NotVowelOrHat
HasThreeConsonants(w) ==
  \E k \in 1..(Len(w) - 2) : \A i \in 0..2 : w[k + i] \notin NotVowelOrHat

\* the class [bcdfghjklmnpqrstvwxyz] of the doubled-consonant pattern
DoubleConsonantClass ==
  Range(LowerAscii) \ { "a","e","i","o","u" }

\* the pattern ([bcdfghjklmnpqrstvwxyz])\1
HasDoubleConsonant(w) ==
  \E k \in 1..(Len(w) - 1) :
    w[k] \in DoubleConsonantClass /\ w[k + 1] = w[k]

\* AdverbMorphologicalAnalyzer.hasValidEsperantoPhonology
hasValidEsperantoPhonology(w) ==
  LET normalizedWord == toLowerCase(w) IN
    /\ Len(normalizedWord) >= 4
    /\ ~ \E i \in DOMAIN normalizedWord :
           normalizedWord[i] \in { "q","w","x","y" }
    /\ ~ endsWith(normalizedWord, <<"o","u","s","e">>)
    /\ ~ includes(normalizedWord, <<"t","i","o","n">>)
    /\ ~ startsWith(normalizedWord, <<"t","h">>)
    /\ ~ includes(normalizedWord, <<"g","h","t">>)
    /\ ~ endsWith(normalizedWord, <<"p","l","e">>)
    /\ ~ endsWith(normalizedWord, <<"b","l","e">>)
    /\ ~ HasThreeConsonants(normalizedWord)
    /\ ~ HasDoubleConsonant(normalizedWord)

\* AdverbMorphologicalAnalyzer.match
AdverbMatch(w) ==
  /\ AdverbRegex(w)
  /\ \/ isSpecialAdverb(w)
     \/ /\ hasValidEsperantoCharacters(w)
        /\ hasValidEsperantoPhonology(w)

\* BaseMorphologicalAnalyzer.match with ArticleMorphologicalAnalyzer.matchRegex
ArticleMatch(w) == toLowerCase(w) = <<"l","a">>

\* BaseMorphologicalAnalyzer.match with ConjunctionMorphologicalAnalyzer.matchRegex
ConjunctionMatch(w) == toLowerCase(w) \in Range(CONJUNCTIONS)

\* InterjectionMorphologicalAnalyzer.match
InterjectionMatch(w) ==
  \E i \in DOMAIN INTERJECTIONS :
    toLowerCase(INTERJECTIONS[i]) = toLowerCase(w)

\* one or more basic number roots written one after the other: (nul|unu|...)+
RECURSIVE BasicNumberRun(_)
BasicNumberRun(w) ==
  \E i \in DOMAIN BASIC_NUMBERS :
    /\ startsWith(w, BASIC_NUMBERS[i])
    /\ \/ Len(w) = Len(BASIC_NUMBERS[i])
       \/ BasicNumberRun(substring(w, Len(BASIC_NUMBERS[i])))

\* the optional ending (a(j?n?)|e|on(j?n?)|obl[ae](j?n?)|op[ae](j?n?))? of a numeral
NumeralEndings ==
  { << >>, <<"e">> }
    \cup WithJN(<<"a">>) \cup WithJN(<<"o","n">>)
    \cup WithJN(<<"o","b","l","a">>) \cup WithJN(<<"o","b","l","e">>)
    \cup WithJN(<<"o","p","a">>) \cup WithJN(<<"o","p","e">>)

\* BaseMorphologicalAnalyzer.match with NumeralMorphologicalAnalyzer.matchRegex;
\* the trailing (j?n?)? of the joined alternation binds to the last special
\* number only
NumeralMatch(w) ==
  LET lw == toLowerCase(w) IN
    \/ \E s \in NumeralEndings :
         /\ endsWith(lw, s)
         /\ Len(lw) > Len(s)
         /\ BasicNumberRun(SubSeq(lw, 1, Len(lw) - Len(s)))
    \/ \E i \in 1..(Len(SPECIAL_NUMBERS) - 1) : lw = SPECIAL_NUMBERS[i]
    \/ lw \in WithJN(SPECIAL_NUMBERS[Len(SPECIAL_NUMBERS)])

\* BaseMorphologicalAnalyzer.match with PrepositionMorphologicalAnalyzer.matchRegex
PrepositionMatch(w) ==
  toLowerCase(w) \in Range(PREPOSITIONS \o COMPOUND_PREPOSITIONS)

\* PronounMorphologicalAnalyzer.generateCorrelatives
generateCorrelatives ==
  { CORRELATIVE_BEGINNINGS[b] \o CORRELATIVE_ENDINGS[e] :
      b \in DOMAIN CORRELATIVE_BEGINNINGS, e \in DOMAIN CORRELATIVE_ENDINGS }
    \cup { CORRELATIVE_BEGINNINGS[b] \o <<"u","o">> :
             b \in DOMAIN CORRELATIVE_BEGINNINGS }

\* the second word (ti[uoael]|ti[ao]m|tiel) of a compound with "cxi"
CompoundSecond ==
  { <<"t","i",c>> : c \in { "u","o","a","e","l" } }
    \cup { <<"t","i","a","m">>, <<"t","i","o","m">>, <<"t","i","e","l">> }

\* the alternative  cxi \s+ (ti[uoael]|ti[ao]m|tiel)(j?n?)  of the pronoun regex
CompoundPronoun(lw) ==
  /\ startsWith(lw, <<"cx","i">>)
  /\ \E k \in 3..Len(lw) :
       /\ \A i \in 3..k : lw[i] \in WhiteSpace
       /\ \E s \in CompoundSecond : substring(lw, k) \in WithJN(s)

\* BaseMorphologicalAnalyzer.match with PronounMorphologicalAnalyzer.matchRegex
PronounMatch(w) ==
  LET lw == toLowerCase(w) IN
    \/ \E i \in DOMAIN PERSONAL_PRONOUNS :
         lw \in { PERSONAL_PRONOUNS[i], PERSONAL_PRONOUNS[i] \o <<"n">> }
    \/ \E i \in DOMAIN POSSESSIVE_ROOTS :
         lw \in WithJN(POSSESSIVE_ROOTS[i] \o <<"a">>)
    \/ \E c \in generateCorrelatives : lw \in WithJN(c)
    \/ \E i \in DOMAIN SPECIAL_PRONOUNS : lw \in WithJN(SPECIAL_PRONOUNS[i])
    \/ CompoundPronoun(lw)

(***************************************************************************)
(* Feature extraction.  extractMorphology raises when the word does not     *)
(* match the analyzer: the outcome is [threw |-> TRUE], otherwise           *)
(* [threw |-> FALSE, features |-> the MorphologicalFeatures record].        *)
(* AnalysisOptions is modelled by the truth value of includeFeatures, the   *)
(* only option the analyzers read.                                          *)
(***************************************************************************)
\* MorphologicalAnalyzer.getDefaultOptions / BaseMorphologicalAnalyzer.getDefaultOptions
getDefaultOptions == [includeFeatures |-> TRUE]

\* the default value {} of the options parameter of analyzeAll
EmptyOptions == [includeFeatures |-> FALSE]

\* BaseMorphologicalAnalyzer.getEmptyMorphology
getEmptyMorphology == [isPlural |-> FALSE, isAccusative |-> FALSE]

\* checkPlural looking for the j at the very end of the word only
CheckPluralAtEnd(w) == endsWith(w, <<"j">>)

\* BaseMorphologicalAnalyzer.checkPlural
BaseCheckPlural(w) ==
  LET baseWord == IF endsWith(w, <<"n">>) THEN sliceEnd(w, 1) ELSE w
  IN  endsWith(baseWord, <<"j">>)

\* BaseMorphologicalAnalyzer.checkAccusative
BaseCheckAccusative(w) == endsWith(w, <<"n">>)

\* VerbMorphologicalAnalyzer.isParticiple with a tense marker
isParticipleOf(w, tenseMarker) ==
  \E t \in { <<"a">>, <<"e">>, <<"a","j">>, <<"a","j","n">>, <<"a","n">> } :
    endsWith(w, tenseMarker \o t)

\* VerbMorphologicalAnalyzer.isParticiple without a tense marker
isParticiple(w) ==
  \E i \in DOMAIN PARTICIPLE_ENDINGS : endsWith(w, PARTICIPLE_ENDINGS[i])

\* VerbMorphologicalAnalyzer.checkPlural
VerbCheckPlural(w) ==
  LET normalizedWord == toLowerCase(w) IN
    IF isParticiple(normalizedWord)
    THEN \/ endsWith(normalizedWord, <<"a","j">>)
         \/ endsWith(normalizedWord, <<"a","j","n">>)
    ELSE FALSE

\* VerbMorphologicalAnalyzer.checkAccusative
VerbCheckAccusative(w) ==
  LET normalizedWord == toLowerCase(w) IN
    IF isParticiple(normalizedWord)
    THEN endsWith(normalizedWord, <<"n">>)
    ELSE FALSE

\* checkPlural of NumeralMorphologicalAnalyzer and PronounMorphologicalAnalyzer: /j/
ContainsJ(w) == \E i \in DOMAIN w : toLowerCase(w)[i] = "j"

\* checkAccusative of NumeralMorphologicalAnalyzer and PronounMorphologicalAnalyzer: /n$/
EndsInN(w) == endsWith(toLowerCase(w), <<"n">>)

\* checkPlural as each analyzer class resolves it
checkPlural(tag, w) ==
  CASE tag \in { "Noun", "Adjective" } -> BaseCheckPlural(w)
    [] tag = "Verb" -> VerbCheckPlural(w)
    [] tag \in { "Numeral", "Pronoun" } -> ContainsJ(w)
    [] OTHER -> FALSE

\* checkAccusative as each analyzer class resolves it
checkAccusative(tag, w) ==
  CASE tag \in { "Noun", "Adjective" } -> BaseCheckAccusative(w)
    [] tag = "Verb" -> VerbCheckAccusative(w)
    [] tag \in { "Numeral", "Pronoun" } -> EndsInN(w)
    [] OTHER -> FALSE

\* BaseMorphologicalAnalyzer.extractMorphology
BaseExtractMorphology(tag, w, options) ==
  IF ~ options.includeFeatures
  THEN getEmptyMorphology
  ELSE [isPlural |-> checkPlural(tag, w),
        isAccusative |-> checkAccusative(tag, w)]

\* remove the last character when the word ends with it
StripLast(w, c) == IF endsWith(w, <<c>>) THEN sliceEnd(w, 1) ELSE w

\* NounMorphologicalAnalyzer.extractRoot
NounExtractRoot(w) == StripLast(StripLast(StripLast(w, "n"), "j"), "o")

\* AdjectiveMorphologicalAnalyzer.extractRoot
AdjectiveExtractRoot(w) ==
  StripLast(StripLast(StripLast(toLowerCase(w), "n"), "j"), "a")

\* VerbMorphologicalAnalyzer.extractTense
extractTense(w) ==
  LET normalizedWord == toLowerCase(w) IN
    IF endsWith(normalizedWord, <<"i">>) THEN "infinitive"
    ELSE IF endsWith(normalizedWord, <<"u","s">>) THEN "conditional"
    ELSE IF \/ endsWith(normalizedWord, <<"a","s">>)
            \/ isParticipleOf(normalizedWord, <<"a","n","t">>) THEN "present"
    ELSE IF \/ endsWith(normalizedWord, <<"i","s">>)
            \/ isParticipleOf(normalizedWord, <<"i","n","t">>) THEN "past"
    ELSE IF \/ endsWith(normalizedWord, <<"o","s">>)
            \/ isParticipleOf(normalizedWord, <<"o","n","t">>) THEN "future"
    ELSE "present"

\* extractMood without the test for a participle
extractMoodOfFiniteForms(w) ==
  LET normalizedWord == toLowerCase(w) IN
    IF endsWith(normalizedWord, <<"i">>) THEN "infinitive"
    ELSE IF endsWith(normalizedWord, <<"u","s">>) THEN "conditional"
    ELSE IF endsWith(normalizedWord, <<"u">>) THEN "imperative"
    ELSE "indicative"

\* VerbMorphologicalAnalyzer.extractMood
extractMood(w) ==
  LET normalizedWord == toLowerCase(w) IN
    IF endsWith(normalizedWord, <<"i">>) THEN "infinitive"
    ELSE IF endsWith(normalizedWord, <<"u","s">>) THEN "conditional"
    ELSE IF endsWith(normalizedWord, <<"u">>) THEN "imperative"
    ELSE IF isParticiple(normalizedWord) THEN "participle"
    ELSE "indicative"

\* VerbMorphologicalAnalyzer.extractRoot: the first ending of ALL_ENDINGS that fits
VerbExtractRoot(w) ==
  LET normalizedWord == toLowerCase(w)
      fits == { i \in DOMAIN ALL_ENDINGS : endsWith(normalizedWord, ALL_ENDINGS[i]) }
  IN  IF fits = { }
      THEN normalizedWord
      ELSE LET first == CHOOSE i \in fits : \A j \in fits : i <= j
           IN  sliceEnd(normalizedWord, Len(ALL_ENDINGS[first]))

\* AdverbMorphologicalAnalyzer.extractRoot
AdverbExtractRoot(w) ==
  LET normalizedWord == toLowerCase(w) IN
    IF isSpecialAdverb(normalizedWord) THEN normalizedWord
    ELSE IF endsWith(normalizedWord, <<"e">>) THEN sliceEnd(normalizedWord, 1)
    ELSE normalizedWord

\* PrepositionMorphologicalAnalyzer.isCompoundPreposition
isCompoundPreposition(w) == w \in Range(COMPOUND_PREPOSITIONS)

\* PrepositionMorphologicalAnalyzer.getSemanticCategory
getSemanticCategory(w) ==
  IF w \in { <<"a","l">>, <<"a","n","t","a","ux">>, <<"a","p","u","d">>,
             <<"cx","e">>, <<"cx","i","r","k","a","ux">>,
             <<"e","k","s","t","e","r">>, <<"e","l">>, <<"e","n">>,
             <<"i","n","t","e","r">>, <<"k","o","n","t","r","a","ux">>,
             <<"p","o","s","t">>, <<"p","r","e","t","e","r">>, <<"s","u","b">>,
             <<"s","u","p","e","r">>, <<"s","u","r">>, <<"t","r","a">>,
             <<"t","r","a","n","s">> } THEN "spatial"
  ELSE IF w \in { <<"a","n","t","a","ux">>, <<"d","u","m">>, <<"gx","i","s">>,
                  <<"p","o","s","t">> } THEN "temporal"
  ELSE IF w \in { <<"p","e","r">>, <<"k","u","n">>, <<"s","e","n">>,
                  <<"l","a","ux">> } THEN "instrumental"
  ELSE IF w \in { <<"p","r","o">>, <<"m","a","l","g","r","a","ux">>,
                  <<"a","n","s","t","a","t","a","ux">> } THEN "causal"
  ELSE IF w \in { <<"d","e">>, <<"d","a">>, <<"p","r","i">>, <<"p","o","r">>,
                  <<"k","r","o","m">> } THEN "relational"
  ELSE IF w = <<"j","e">> THEN "universal"
  ELSE "other"

\* the text matched by a pattern (s1|s2|...)$ whose alternatives are the
\* literals of the set: String.prototype.match returns the leftmost match,
\* which for an end-anchored pattern is the longest fitting literal
FittingSuffixes(w, suffixes) == { s \in suffixes : endsWith(w, s) }

LongestSuffix(w, suffixes) ==
  CHOOSE s \in FittingSuffixes(w, suffixes) :
    \A t \in FittingSuffixes(w, suffixes) : Len(t) <= Len(s)

\* the six patterns of NumeralMorphologicalAnalyzer.extractNumeralRoot, in order
NumeralRootPatterns ==
  << WithJN(<<"a">>),
     { <<"e">> },
     WithJN(<<"o","n">>),
     WithJN(<<"o","b","l","a">>) \cup WithJN(<<"o","b","l","e">>),
     WithJN(<<"o","p","a">>) \cup WithJN(<<"o","p","e">>),
     JN >>

\* the loop over the patterns of extractNumeralRoot and extractPronounRoot:
\* the word without the text that the first matching pattern matches; with
\* `shorter` a match counts only when it is shorter than the word
RECURSIVE StripFirstMatch(_, _, _)
StripFirstMatch(word, patterns, shorter) ==
  IF patterns = << >> THEN word
  ELSE IF /\ FittingSuffixes(word, Head(patterns)) # { }
          /\ (shorter => Len(LongestSuffix(word, Head(patterns))) < Len(word))
       THEN SubSeq(word, 1, Len(word) - Len(LongestSuffix(word, Head(patterns))))
       ELSE StripFirstMatch(word, Tail(patterns), shorter)

\* NumeralMorphologicalAnalyzer.extractNumeralRoot
extractNumeralRoot(w) == StripFirstMatch(toLowerCase(w), NumeralRootPatterns, FALSE)

\* NumeralMorphologicalAnalyzer.isOrdinal
isOrdinal(w) == FittingSuffixes(toLowerCase(w), WithJN(<<"a">>)) # { }

\* NumeralMorphologicalAnalyzer.isAdverbial
isAdverbial(w) ==
  /\ endsWith(toLowerCase(w), <<"e">>)
  /\ extractNumeralRoot(w) \in Range(BASIC_NUMBERS)

\* NumeralMorphologicalAnalyzer.isFractional
isFractional(w) == FittingSuffixes(toLowerCase(w), WithJN(<<"o","n">>)) # { }

\* NumeralMorphologicalAnalyzer.isMultiplicative
isMultiplicative(w) ==
  FittingSuffixes(toLowerCase(w),
    WithJN(<<"o","b","l","a">>) \cup WithJN(<<"o","b","l","e">>)) # { }

\* NumeralMorphologicalAnalyzer.isCollective
isCollective(w) ==
  FittingSuffixes(toLowerCase(w),
    WithJN(<<"o","p","a">>) \cup WithJN(<<"o","p","e">>)) # { }

\* NumeralMorphologicalAnalyzer.isSpecialNumber
isSpecialNumber(w) == extractNumeralRoot(w) \in Range(SPECIAL_NUMBERS)

\* NumeralMorphologicalAnalyzer.isCompoundNumber
isCompoundNumber(root) ==
  Cardinality({ i \in DOMAIN BASIC_NUMBERS :
                  includes(root, BASIC_NUMBERS[i]) /\ BASIC_NUMBERS[i] # root }) > 1

\* NumeralMorphologicalAnalyzer.getNumeralType
getNumeralType(w) ==
  IF isOrdinal(w) THEN "ordinal"
  ELSE IF isAdverbial(w) THEN "adverbial"
  ELSE IF isFractional(w) THEN "fractional"
  ELSE IF isMultiplicative(w) THEN "multiplicative"
  ELSE IF isCollective(w) THEN "collective"
  ELSE IF isSpecialNumber(w) THEN "special"
  ELSE "cardinal"

\* the three patterns of PronounMorphologicalAnalyzer.extractPronounRoot, in order
PronounRootPatterns == << WithJN(<<"a">>), { <<"n">> }, JN >>

\* PronounMorphologicalAnalyzer.extractPronounRoot
extractPronounRoot(w) ==
  LET lowercaseWord == trim(toLowerCase(w)) IN
    IF startsWith(lowercaseWord, <<"cx","i"," ">>)
    THEN substring(lowercaseWord, 3)
    ELSE StripFirstMatch(lowercaseWord, PronounRootPatterns, TRUE)

\* PronounMorphologicalAnalyzer.isPersonal
isPersonal(w) == extractPronounRoot(w) \in Range(PERSONAL_PRONOUNS)

\* PronounMorphologicalAnalyzer.isPossessive; of the class in front of the
\* final a only the letters a-z occur in the modelled alphabet
isPossessive(w) ==
  LET lw == toLowerCase(w) IN
    /\ \E s \in WithJN(<<"a">>) :
         /\ endsWith(lw, s)
         /\ Len(lw) > Len(s)
         /\ lw[Len(lw) - Len(s)] \in Range(LowerAscii)
    /\ \E i \in DOMAIN POSSESSIVE_ROOTS :
         startsWith(lw, POSSESSIVE_ROOTS[i] \o <<"a">>)

\* PronounMorphologicalAnalyzer.isCorrelative
isCorrelative(w) == extractPronounRoot(w) \in generateCorrelatives

\* PronounMorphologicalAnalyzer.isReflexive
isReflexive(w) == startsWith(extractPronounRoot(w), <<"s","i">>)

\* the tests of getPronounType on the root
PronounTypeOfRoot(w, root) ==
  IF startsWith(root, <<"t","i">>) THEN "demonstrative"
  ELSE IF startsWith(root, <<"k","i">>)
       THEN (IF includes(w, <<"?">>) THEN "interrogative" ELSE "relative")
  ELSE IF startsWith(root, <<"i">>) /\ ~ startsWith(root, <<"i","l","i">>)
       THEN "indefinite"
  ELSE IF startsWith(root, <<"cx","i">>) THEN "universal"
  ELSE IF startsWith(root, <<"n","e","n","i">>) THEN "negative"
  ELSE "special"

\* PronounMorphologicalAnalyzer.getPronounType
getPronounType(w) ==
  IF isPersonal(w) THEN "personal"
  ELSE IF isPossessive(w) THEN "possessive"
  ELSE IF isReflexive(w) THEN "reflexive"
  ELSE PronounTypeOfRoot(w, extractPronounRoot(w))

\* the tests of getCorrelativeFunction on the root ("null" is JavaScript's null)
CorrelativeFunctionOfRoot(root) ==
  IF endsWith(root, <<"u">>) \/ endsWith(root, <<"u","o">>) THEN "individual"
  ELSE IF endsWith(root, <<"o">>) THEN "thing"
  ELSE IF endsWith(root, <<"a">>) THEN "quality"
  ELSE IF endsWith(root, <<"e">>) THEN "place/manner"
  ELSE IF endsWith(root, <<"a","l">>) THEN "reason"
  ELSE IF endsWith(root, <<"a","m">>) THEN "time"
  ELSE IF endsWith(root, <<"o","m">>) THEN "quantity"
  ELSE IF endsWith(root, <<"e","l">>) THEN "manner"
  ELSE "null"

\* PronounMorphologicalAnalyzer.getCorrelativeFunction
getCorrelativeFunction(w) ==
  IF ~ isCorrelative(w) THEN "null"
  ELSE CorrelativeFunctionOfRoot(extractPronounRoot(w))

(***************************************************************************)
(* The analyzers as the dispatcher sees them: partOfSpeech, name, match,    *)
(* extractMorphology                                                        *)
(***************************************************************************)
\* ALL_MORPHOLOGICAL_ANALYZERS: the analyzer classes in iteration order, each
\* identified by its partOfSpeech
ALL_MORPHOLOGICAL_ANALYZERS ==
  << "Noun", "Verb", "Adjective", "Adverb", "Article",
     "Conjunction", "Interjection", "Numeral", "Preposition", "Pronoun" >>

\* the name field of each analyzer class
AnalyzerName(tag) ==
  CASE tag = "Noun" -> "NounMorphologicalAnalyzer"
    [] tag = "Verb" -> "VerbMorphologicalAnalyzer"
    [] tag = "Adjective" -> "AdjectiveMorphologicalAnalyzer"
    [] tag = "Adverb" -> "AdverbMorphologicalAnalyzer"
    [] tag = "Article" -> "ArticleMorphologicalAnalyzer"
    [] tag = "Conjunction" -> "ConjunctionMorphologicalAnalyzer"
    [] tag = "Interjection" -> "InterjectionMorphologicalAnalyzer"
    [] tag = "Numeral" -> "NumeralMorphologicalAnalyzer"
    [] tag = "Preposition" -> "PrepositionMorphologicalAnalyzer"
    [] tag = "Pronoun" -> "PronounMorphologicalAnalyzer"

\* analyzer.match(word) for the analyzer with the given partOfSpeech
Match(tag, w) ==
  CASE tag = "Noun" -> NounMatch(w)
    [] tag = "Verb" -> VerbMatch(w)
    [] tag = "Adjective" -> AdjectiveMatch(w)
    [] tag = "Adverb" -> AdverbMatch(w)
    [] tag = "Article" -> ArticleMatch(w)
    [] tag = "Conjunction" -> ConjunctionMatch(w)
    [] tag = "Interjection" -> InterjectionMatch(w)
    [] tag = "Numeral" -> NumeralMatch(w)
    [] tag = "Preposition" -> PrepositionMatch(w)
    [] tag = "Pronoun" -> PronounMatch(w)

\* features read off the final letters for every part of speech alike
FeaturesOfFinalLetters(tag, w, baseMorphology, normalizedWord) ==
  [isPlural |-> BaseCheckPlural(normalizedWord),
   isAccusative |-> BaseCheckAccusative(normalizedWord),
   root |-> normalizedWord]

\* the features each extractMorphology override returns for a matching word,
\* given what super.extractMorphology returned and the lower-cased word
Features(tag, w, baseMorphology, normalizedWord) ==
  CASE tag = "Noun" ->
         [isPlural |-> baseMorphology.isPlural,
          isAccusative |-> baseMorphology.isAccusative,
          root |-> NounExtractRoot(w)]
    [] tag = "Verb" ->
         [isPlural |-> baseMorphology.isPlural,
          isAccusative |-> baseMorphology.isAccusative,
          tense |-> extractTense(w),
          mood |-> extractMood(w),
          root |-> VerbExtractRoot(w)]
    [] tag = "Adjective" ->
         [isPlural |-> baseMorphology.isPlural,
          isAccusative |-> baseMorphology.isAccusative,
          agreement |-> [plural |-> baseMorphology.isPlural,
                         accusative |-> baseMorphology.isAccusative],
          root |-> AdjectiveExtractRoot(w)]
    [] tag = "Adverb" ->
         [isSpecial |-> isSpecialAdverb(w),
          root |-> AdverbExtractRoot(w),
          isPlural |-> FALSE,
          isAccusative |-> FALSE]
    [] tag = "Article" ->
         [isPlural |-> FALSE, isAccusative |-> FALSE, root |-> <<"l","a">>]
    [] tag = "Conjunction" ->
         [isPlural |-> FALSE,
          isAccusative |-> FALSE,
          root |-> normalizedWord,
          isCompound |-> includes(normalizedWord, <<" ">>)]
    [] tag = "Interjection" ->
         [isPlural |-> FALSE,
          isAccusative |-> FALSE,
          root |-> normalizedWord,
          hasExclamation |-> includes(w, <<"!">>),
          isCompound |-> includes(normalizedWord, <<" ">>)]
    [] tag = "Numeral" ->
         [isPlural |-> baseMorphology.isPlural,
          isAccusative |-> baseMorphology.isAccusative,
          root |-> extractNumeralRoot(w),
          numeralType |-> getNumeralType(w),
          isOrdinal |-> isOrdinal(w),
          isAdverbial |-> isAdverbial(w),
          isFractional |-> isFractional(w),
          isMultiplicative |-> isMultiplicative(w),
          isCollective |-> isCollective(w),
          isCompound |-> isCompoundNumber(extractNumeralRoot(w))]
    [] tag = "Preposition" ->
         [isPlural |-> FALSE,
          isAccusative |-> FALSE,
          root |-> normalizedWord,
          isCompound |-> isCompoundPreposition(normalizedWord),
          isUniversal |-> (normalizedWord = <<"j","e">>),
          isArchaic |-> (normalizedWord = <<"c","e">>),
          semanticCategory |-> getSemanticCategory(normalizedWord)]
    [] tag = "Pronoun" ->
         [isPlural |-> baseMorphology.isPlural,
          isAccusative |-> baseMorphology.isAccusative,
          root |-> extractPronounRoot(w),
          pronounType |-> getPronounType(w),
          isPersonal |-> isPersonal(w),
          isPossessive |-> isPossessive(w),
          isCorrelative |-> isCorrelative(w),
          isReflexive |-> isReflexive(w),
          isCompound |-> (includes(w, <<" ">>) \/ includes(w, <<"cx","i">>)),
          correlativeFunction |-> getCorrelativeFunction(w)]

\* analyzer.extractMorphology(word, options): raises unless the word matches
extractMorphology(tag, w, options) ==
  IF ~ Match(tag, w)
  THEN [threw |-> TRUE]
  ELSE [threw |-> FALSE,
        features |-> Features(tag, w, BaseExtractMorphology(tag, w, options),
                              toLowerCase(w))]

(***************************************************************************)
(* The word-value factory                                                   *)
(***************************************************************************)
\* the text of a part-of-speech tag as a JavaScript string
TagChars(tag) ==
  CASE tag = "Noun" -> <<"N","o","u","n">>
    [] tag = "Verb" -> <<"V","e","r","b">>
    [] tag = "Adjective" -> <<"A","d","j","e","c","t","i","v","e">>
    [] tag = "Adverb" -> <<"A","d","v","e","r","b">>
    [] tag = "Article" -> <<"A","r","t","i","c","l","e">>
    [] tag = "Conjunction" -> <<"C","o","n","j","u","n","c","t","i","o","n">>
    [] tag = "Interjection" -> <<"I","n","t","e","r","j","e","c","t","i","o","n">>
    [] tag = "Numeral" -> <<"N","u","m","e","r","a","l">>
    [] tag = "Preposition" -> <<"P","r","e","p","o","s","i","t","i","o","n">>
    [] tag = "Pronoun" -> <<"P","r","o","n","o","u","n">>

\* the value null of a wordInstance field
NullWord == [class |-> "null", value |-> << >>]

\* createWord(value, partOfSpeech): the switch over partOfSpeech and the
\* constructor it calls; the Article constructor raises InvalidArticleError
\* unless the value is "la"
createWord(value, partOfSpeech) ==
  LET classes == { t \in Range(ALL_MORPHOLOGICAL_ANALYZERS) :
                     TagChars(t) = partOfSpeech }
      class == IF classes = { } THEN "UndefinedWord"
               ELSE CHOOSE t \in classes : TRUE
  IN  IF class = "Article" /\ toLowerCase(value) # <<"l","a">>
      THEN [threw |-> TRUE]
      ELSE [threw |-> FALSE, instance |-> [class |-> class, value |-> value]]

(***************************************************************************)
(* MorphologicalAnalyzer, the word-level dispatcher                         *)
(***************************************************************************)
\* JavaScript values passed where a string is expected: a string carries its
\* characters, the other kinds carry none
Str(chars) == [kind |-> "string", chars |-> chars]

NonStringKinds == { "null", "undefined", "zero", "number", "object" }

NonString(kind) == [kind |-> kind, chars |-> << >>]

\* a test that lets every trimmed string pass
NeverEmpty(s) == FALSE

\* the test  !cleanWord  on a trimmed string
IsEmptyString(s) == s = << >>

\* the test  !word || typeof word !== 'string'
NotANonEmptyString(x) == x.kind # "string" \/ x.chars = << >>

\* the highest-confidence rules of calculateConfidence, applied in source order
BaseConfidence(tag, w) ==
  LET afterArticle ==
        IF tag = "Article" /\ toLowerCase(w) = <<"l","a">> THEN 100 ELSE 50
      afterNumeral ==
        IF tag = "Numeral" /\ toLowerCase(w) \in Range(basicNumbers)
        THEN 95 ELSE afterArticle
  IN  IF tag = "Pronoun" /\ toLowerCase(w) \in Range(correlativePronouns)
      THEN 90 ELSE afterNumeral

\* the length bonus granted from five characters on
LengthBonusFromFive(tag, w) ==
  IF Len(w) >= 5 /\ tag \in { "Verb", "Noun", "Adjective" } THEN 20 ELSE 0

\* the length bonus of calculateConfidence
LengthBonus(tag, w) ==
  IF Len(w) > 5 /\ tag \in { "Verb", "Noun", "Adjective" } THEN 20 ELSE 0

\* the switch of calculateConfidence over the tag-specific patterns
PatternBonus(tag, w) ==
  CASE tag = "Noun" ->
         IF ClassThenSuffix(w, EsperantoLetter, 1, WithJN(<<"o">>)) THEN 30 ELSE 0
    [] tag = "Verb" ->
         IF ClassThenSuffix(w, EsperantoLetter, 1, Range(VERB_ENDINGS)) THEN 30 ELSE 0
    [] tag = "Adjective" ->
         IF ClassThenSuffix(w, EsperantoLetter, 1, WithJN(<<"a">>)) THEN 30 ELSE 0
    [] tag = "Adverb" ->
         IF ClassThenSuffix(w, EsperantoLetter, 1, { <<"e">> }) THEN 30 ELSE 0
    [] OTHER -> 0

\* Math.min(confidence, 1.0)
Min(a, b) == IF a <= b THEN a ELSE b

\* MorphologicalAnalyzer.calculateConfidence
calculateConfidence(tag, w) ==
  Min(BaseConfidence(tag, w) + LengthBonus(tag, w) + PatternBonus(tag, w), 100)

\* an Unknown result whose root is the lower-cased word
createUnknownWordResultLowerCased(w) ==
  [word |-> w,
   partOfSpeech |-> "Unknown",
   morphology |-> [root |-> toLowerCase(w), isPlural |-> FALSE, isAccusative |-> FALSE],
   wordInstance |-> NullWord,
   confidence |-> 0,
   alternatives |-> << >>,
   analyzer |-> "Unknown"]

\* MorphologicalAnalyzer.createUnknownWordResult
createUnknownWordResult(w) ==
  [word |-> w,
   partOfSpeech |-> "Unknown",
   morphology |-> [root |-> w, isPlural |-> FALSE, isAccusative |-> FALSE],
   wordInstance |-> NullWord,
   confidence |-> 0,
   alternatives |-> << >>,
   analyzer |-> "Unknown"]

\* the matching loop of analyze: one entry per analyzer whose match succeeds,
\* in iteration order
RECURSIVE CollectMatches(_, _)
CollectMatches(analyzers, w) ==
  IF analyzers = << >> THEN << >>
  ELSE LET analyzer == Head(analyzers)
           rest == CollectMatches(Tail(analyzers), w)
       IN  IF Match(analyzer, w)
           THEN << [analyzer |-> analyzer,
                    confidence |-> calculateConfidence(analyzer, w)] >> \o rest
           ELSE rest

\* insert x in front of the entries whose confidence equals its own
RECURSIVE InsertBeforeEqual(_, _)
InsertBeforeEqual(x, sorted) ==
  IF sorted = << >> THEN << x >>
  ELSE IF Head(sorted).confidence > x.confidence
       THEN << Head(sorted) >> \o InsertBeforeEqual(x, Tail(sorted))
       ELSE << x >> \o sorted

\* insert x behind every entry whose confidence is not lower than its own
RECURSIVE InsertByConfidence(_, _)
InsertByConfidence(x, sorted) ==
  IF sorted = << >> THEN << x >>
  ELSE IF Head(sorted).confidence >= x.confidence
       THEN << Head(sorted) >> \o InsertByConfidence(x, Tail(sorted))
       ELSE << x >> \o sorted

\* a sort that leaves the entries in the order they were pushed
KeepOrder(s) == s

\* Array.prototype.sort with (a, b) => b.confidence - a.confidence: a stable
\* sort into non-increasing confidence
RECURSIVE SortByConfidence(_)
SortByConfidence(s) ==
  IF s = << >> THEN << >>
  ELSE InsertByConfidence(s[Len(s)], SortByConfidence(SubSeq(s, 1, Len(s) - 1)))

\* Array.prototype.slice(0, n)
Take(s, n) == IF n <= 0 THEN << >> ELSE SubSeq(s, 1, Min(n, Len(s)))

\* the try block shared by analyze, getAlternatives and analyzeAll, given what
\* extractMorphology and createWord returned or raised
TryResult(morphology, wordInstance, tag, confidence, w, alternatives) ==
  IF morphology.threw \/ wordInstance.threw
  THEN [threw |-> TRUE]
  ELSE [threw |-> FALSE,
        value |-> [word |-> w,
                   partOfSpeech |-> tag,
                   morphology |-> morphology.features,
                   wordInstance |-> wordInstance.instance,
                   confidence |-> confidence,
                   alternatives |-> alternatives,
                   analyzer |-> AnalyzerName(tag)]]

\* the result built for one match, or the fact that building it raised; the
\* factory is called as createWord(speechPart, word)
MatchResult(tag, confidence, w, options, alternatives) ==
  TryResult(extractMorphology(tag, w, options), createWord(TagChars(tag), w),
            tag, confidence, w, alternatives)

\* the catch block of the callback of getAlternatives
OrMinimalResult(attempt, match, w) ==
  IF attempt.threw
  THEN [word |-> w,
        partOfSpeech |-> "Unknown",
        morphology |-> [root |-> w, isPlural |-> FALSE, isAccusative |-> FALSE],
        wordInstance |-> NullWord,
        confidence |-> 0,
        alternatives |-> << >>,
        analyzer |-> AnalyzerName(match.analyzer)]
  ELSE attempt.value

\* the callback of getAlternatives for one match
AlternativeOf(match, w, options) ==
  OrMinimalResult(MatchResult(match.analyzer, match.confidence, w, options, << >>),
                  match, w)

\* MorphologicalAnalyzer.getAlternatives
getAlternatives(matches, w, options) ==
  [ i \in 1..Len(Take(matches, 3)) |-> AlternativeOf(matches[i], w, options) ]

\* the catch block of analyze
OrUnknownWordResult(attempt, cleanWord) ==
  IF attempt.threw THEN createUnknownWordResult(cleanWord) ELSE attempt.value

\* analyze handing every match, the best one included, to getAlternatives
AnalyzeMatchesKeepingBest(matches, cleanWord, options) ==
  IF matches = << >> THEN createUnknownWordResult(cleanWord)
  ELSE OrUnknownWordResult(
         MatchResult(matches[1].analyzer, matches[1].confidence, cleanWord, options,
                     getAlternatives(matches, cleanWord, options)),
         cleanWord)

\* the part of analyze after the sort, for the sorted list of matches: no
\* best match gives the unknown-word result, as an empty list did before the sort
AnalyzeMatches(matches, cleanWord, options) ==
  IF matches = << >> THEN createUnknownWordResult(cleanWord)
  ELSE OrUnknownWordResult(
         MatchResult(matches[1].analyzer, matches[1].confidence, cleanWord, options,
                     getAlternatives(Tail(matches), cleanWord, options)),
         cleanWord)

\* analyze from the test of the trimmed word on
AnalyzeCleanWord(analyzers, cleanWord, options) ==
  IF IsEmptyString(cleanWord)
  THEN [raised |-> TRUE, error |-> "Word cannot be empty or only whitespace"]
  ELSE [raised |-> FALSE,
        value |-> AnalyzeMatches(SortByConfidence(CollectMatches(analyzers, cleanWord)),
                                 cleanWord, options)]

\* MorphologicalAnalyzer.analyze
analyze(analyzers, word, options) ==
  IF NotANonEmptyString(word)
  THEN [raised |-> TRUE, error |-> "Word must be a non-empty string"]
  ELSE AnalyzeCleanWord(analyzers, trim(word.chars), options)

\* the body of the loop of analyzeAll for one analyzer: its result is pushed
\* when it matches and building the result did not raise
PushResult(matched, attempt, rest) ==
  IF matched /\ ~ attempt.threw THEN << attempt.value >> \o rest ELSE rest

\* the loop of analyzeAll: one result per analyzer that matches and for which
\* neither extractMorphology nor createWord raises, in iteration order
RECURSIVE CollectResults(_, _, _)
CollectResults(analyzers, w, options) ==
  IF analyzers = << >> THEN << >>
  ELSE PushResult(Match(Head(analyzers), w),
                  MatchResult(Head(analyzers), calculateConfidence(Head(analyzers), w),
                              w, options, << >>),
                  CollectResults(Tail(analyzers), w, options))

\* analyzeAll from the test of the trimmed word on
AnalyzeAllCleanWord(analyzers, cleanWord, options) ==
  IF IsEmptyString(cleanWord)
  THEN [raised |-> TRUE, error |-> "Word cannot be empty or only whitespace"]
  ELSE [raised |-> FALSE,
        value |-> SortByConfidence(CollectResults(analyzers, cleanWord, options))]

\* MorphologicalAnalyzer.analyzeAll
analyzeAll(analyzers, word, options) ==
  IF NotANonEmptyString(word)
  THEN [raised |-> TRUE, error |-> "Word must be a non-empty string"]
  ELSE AnalyzeAllCleanWord(analyzers, trim(word.chars), options)

\* canAnalyze matching the word as given, without trimming it
canAnalyzeUntrimmed(analyzers, word) ==
  IF NotANonEmptyString(word) THEN FALSE
  ELSE \E i \in DOMAIN analyzers : Match(analyzers[i], word.chars)

\* MorphologicalAnalyzer.canAnalyze
canAnalyze(analyzers, word) ==
  IF NotANonEmptyString(word) THEN FALSE
  ELSE LET cleanWord == trim(word.chars) IN
         IF IsEmptyString(cleanWord) THEN FALSE
         ELSE \E i \in DOMAIN analyzers : Match(analyzers[i], cleanWord)

(***************************************************************************)
(* MorphologicalSentenceAnalyzer                                            *)
(***************************************************************************)
\* the class [.!?;:,] of tokenize
Punctuation == { ".", "!", "?", ";", ":", "," }

\* sentence.replace(/([.!?;:,])/g, ' $1 ')
RECURSIVE SurroundPunctuation(_)
SurroundPunctuation(s) ==
  IF s = << >> THEN << >>
  ELSE (IF Head(s) \in Punctuation THEN << " ", Head(s), " " >> ELSE << Head(s) >>)
         \o SurroundPunctuation(Tail(s))

\* .replace(/\s+/g, ' ')
RECURSIVE NormalizeWhitespace(_)
NormalizeWhitespace(s) ==
  IF s = << >> THEN << >>
  ELSE IF Head(s) \in WhiteSpace
       THEN << " " >> \o NormalizeWhitespace(TrimStart(s))
       ELSE << Head(s) >> \o NormalizeWhitespace(Tail(s))

\* the characters of s in front of its first white-space character
RECURSIVE UpToWhitespace(_)
UpToWhitespace(s) ==
  IF s = << >> \/ Head(s) \in WhiteSpace THEN << >>
  ELSE << Head(s) >> \o UpToWhitespace(Tail(s))

\* String.prototype.split(/\s+/)
RECURSIVE SplitOnWhitespace(_)
SplitOnWhitespace(s) ==
  LET first == UpToWhitespace(s)
      rest == substring(s, Len(first))
  IN  IF rest = << >> THEN << first >>
      ELSE << first >> \o SplitOnWhitespace(TrimStart(rest))

\* tokenize without its last filter, tokens of punctuation kept
tokenizeKeepingPunctuation(sentence) ==
  LET tokens == SplitOnWhitespace(trim(NormalizeWhitespace(SurroundPunctuation(sentence))))
  IN  SelectSeq(tokens, LAMBDA token : Len(token) > 0)

\* MorphologicalSentenceAnalyzer.tokenize
tokenize(sentence) ==
  LET tokens == SplitOnWhitespace(trim(NormalizeWhitespace(SurroundPunctuation(sentence))))
      nonEmpty == SelectSeq(tokens, LAMBDA token : Len(token) > 0)
  IN  SelectSeq(nonEmpty, LAMBDA token : ~ AllIn(token, Punctuation))

\* the record r without the field f (the delete operator)
Delete(r, f) == [ g \in DOMAIN r \ { f } |-> r[g] ]

\* the record r with field f set to v (the spread { ...r, f: v })
With(r, f, v) == [ g \in DOMAIN r \cup { f } |-> IF g = f THEN v ELSE r[g] ]

\* a slice that also takes the entry at index end
SliceThroughEnd(s, end) ==
  IF Len(s) <= 1 THEN << >> ELSE SubSeq(s, 2, Min(end + 1, Len(s)))

\* Array.prototype.slice(1, end) for an integer end
SliceFromOne(s, end) ==
  LET to == IF end < 0 THEN (IF Len(s) + end < 0 THEN 0 ELSE Len(s) + end)
            ELSE Min(end, Len(s))
  IN  IF to <= 1 THEN << >> ELSE SubSeq(s, 2, to)

\* the defaults of analyzeSentence overlaid with the caller's options; a
\* caller's options record carries every field
DefaultSentenceOptions ==
  [includeConfidence |-> TRUE,
   includeAlternatives |-> FALSE,
   includeMorphology |-> TRUE,
   maxAlternatives |-> 2,
   preserveCase |-> FALSE]

\* the result analyzeSentence pushes when analysing a token raises
FailedTokenResult(token, analysisOptions) ==
  [word |-> IF analysisOptions.preserveCase THEN token ELSE toLowerCase(token),
   partOfSpeech |-> "Unknown",
   morphology |-> [root |-> toLowerCase(token),
                   isPlural |-> FALSE,
                   isAccusative |-> FALSE],
   wordInstance |-> NullWord,
   confidence |-> 0,
   alternatives |-> << >>,
   analyzer |-> "Unknown"]

\* the choice made by the first branch of the loop body between what
\* analyzeAll and analyze returned for the token
ChooseAnalysis(allAnalyses, single, analysisOptions) ==
  IF ~ analysisOptions.includeAlternatives THEN single
  ELSE IF allAnalyses.raised THEN allAnalyses
  ELSE IF Len(allAnalyses.value) > 0
  THEN [raised |-> FALSE,
        value |-> With(allAnalyses.value[1], "alternatives",
                       SliceFromOne(allAnalyses.value,
                                    analysisOptions.maxAlternatives + 1))]
  ELSE single

\* the first branch of the loop body: the result chosen for a token before the
\* options filter it; [raised |-> TRUE] when a dispatcher call raises
TokenAnalysis(analyzers, token, analysisOptions) ==
  ChooseAnalysis(analyzeAll(analyzers, Str(token), EmptyOptions),
                 analyze(analyzers, Str(token), getDefaultOptions),
                 analysisOptions)

\* the option filters of the loop body, in source order
ApplyOptions(result, token, analysisOptions) ==
  LET r1 == IF ~ analysisOptions.includeConfidence
            THEN Delete(result, "confidence") ELSE result
      r2 == IF ~ analysisOptions.includeMorphology
            THEN Delete(r1, "morphology") ELSE r1
      r3 == IF ~ analysisOptions.includeAlternatives
            THEN With(r2, "alternatives", << >>) ELSE r2
  IN  IF analysisOptions.preserveCase THEN With(r3, "word", token) ELSE r3

\* the rest of the loop body, given what its first branch chose or raised
TokenResult(analysis, token, analysisOptions) ==
  IF analysis.raised
  THEN FailedTokenResult(token, analysisOptions)
  ELSE ApplyOptions(analysis.value, token, analysisOptions)

\* one iteration of the loop of analyzeSentence, with its try/catch
AnalyzeToken(analyzers, token, analysisOptions) ==
  TokenResult(TokenAnalysis(analyzers, token, analysisOptions), token, analysisOptions)

\* typeof w.confidence === 'number'
HasConfidence(w) == "confidence" \in DOMAIN w

\* a sum that stops after the first entry of s
SumConfidenceOfFirst(s) ==
  IF s = << >> THEN 0
  ELSE IF Head(s).partOfSpeech # "Unknown" /\ HasConfidence(Head(s))
       THEN Head(s).confidence ELSE 0

\* the sum of the confidences of the known words of s that carry one
RECURSIVE SumConfidence(_)
SumConfidence(s) ==
  IF s = << >> THEN 0
  ELSE (IF Head(s).partOfSpeech # "Unknown" /\ HasConfidence(Head(s))
        THEN Head(s).confidence ELSE 0) + SumConfidence(Tail(s))

\* a count that registers a tag once, however often it occurs
CountTagOnce(s, tag) == IF \E i \in DOMAIN s : s[i].partOfSpeech = tag THEN 1 ELSE 0

\* the number of entries of s carrying the tag
CountTag(s, tag) == Cardinality({ i \in DOMAIN s : s[i].partOfSpeech = tag })

\* calculateStatistics counting every word as analysed
calculateStatisticsOfAllWords(wordAnalyses) ==
  LET totalWords == Len(wordAnalyses)
      confidenceSum == SumConfidence(wordAnalyses)
      wordsWithConfidence ==
        Cardinality({ i \in DOMAIN wordAnalyses : HasConfidence(wordAnalyses[i]) })
      observed == { wordAnalyses[i].partOfSpeech : i \in DOMAIN wordAnalyses }
  IN  [totalWords |-> totalWords,
       analyzedWords |-> totalWords,
       unknownWords |-> 0,
       averageConfidence |->
         IF wordsWithConfidence > 0
         THEN [num |-> confidenceSum, den |-> wordsWithConfidence]
         ELSE [num |-> 0, den |-> 1],
       partOfSpeechCounts |-> [ tag \in observed |-> CountTag(wordAnalyses, tag) ]]

\* MorphologicalSentenceAnalyzer.calculateStatistics; averageConfidence is the
\* quotient num / den of hundredths, 0 / 1 when no word carries a confidence
calculateStatistics(wordAnalyses) ==
  LET totalWords == Len(wordAnalyses)
      analyzedWords ==
        Cardinality({ i \in DOMAIN wordAnalyses :
                        wordAnalyses[i].partOfSpeech # "Unknown" })
      confidenceSum == SumConfidence(wordAnalyses)
      wordsWithConfidence ==
        Cardinality({ i \in DOMAIN wordAnalyses : HasConfidence(wordAnalyses[i]) })
      observed == { wordAnalyses[i].partOfSpeech : i \in DOMAIN wordAnalyses }
  IN  [totalWords |-> totalWords,
       analyzedWords |-> analyzedWords,
       unknownWords |-> totalWords - analyzedWords,
       averageConfidence |->
         IF wordsWithConfidence > 0
         THEN [num |-> confidenceSum, den |-> wordsWithConfidence]
         ELSE [num |-> 0, den |-> 1],
       partOfSpeechCounts |-> [ tag \in observed |-> CountTag(wordAnalyses, tag) ]]

\* the loop of analyzeSentence over the tokens
AnalyzeTokens(analyzers, words, analysisOptions) ==
  [ i \in DOMAIN words |-> AnalyzeToken(analyzers, words[i], analysisOptions) ]

\* the value analyzeSentence returns for the analysed tokens
SentenceResult(cleanSentence, wordAnalyses) ==
  [originalSentence |-> cleanSentence,
   words |-> wordAnalyses,
   statistics |-> calculateStatistics(wordAnalyses)]

\* analyzeSentence from the test of the trimmed sentence on
AnalyzeCleanSentence(analyzers, cleanSentence, analysisOptions) ==
  IF IsEmptyString(cleanSentence)
  THEN [raised |-> TRUE, error |-> "Sentence cannot be empty or only whitespace"]
  ELSE [raised |-> FALSE,
        value |-> SentenceResult(cleanSentence,
                                 AnalyzeTokens(analyzers, tokenize(cleanSentence),
                                               analysisOptions))]

\* MorphologicalSentenceAnalyzer.analyzeSentence
analyzeSentence(analyzers, sentence, analysisOptions) ==
  IF NotANonEmptyString(sentence)
  THEN [raised |-> TRUE, error |-> "Sentence must be a non-empty string"]
  ELSE AnalyzeCleanSentence(analyzers, trim(sentence.chars), analysisOptions)

\* the class [.!?] of splitIntoSentences
SentenceEnders == { ".", "!", "?" }

\* the characters of s in front of its first sentence-ending character
RECURSIVE UpToEnder(_)
UpToEnder(s) ==
  IF s = << >> \/ Head(s) \in SentenceEnders THEN << >>
  ELSE << Head(s) >> \o UpToEnder(Tail(s))

\* s without its leading run of sentence-ending characters
RECURSIVE DropEnders(_)
DropEnders(s) ==
  IF s # << >> /\ Head(s) \in SentenceEnders THEN DropEnders(Tail(s)) ELSE s

\* String.prototype.split(/[.!?]+/)
RECURSIVE SplitOnEnders(_)
SplitOnEnders(s) ==
  LET first == UpToEnder(s)
      rest == substring(s, Len(first))
  IN  IF rest = << >> THEN << first >>
      ELSE << first >> \o SplitOnEnders(DropEnders(rest))

\* splitIntoSentences without its filter, empty segments kept
splitIntoSentencesKeepingEmpty(paragraph) ==
  [ i \in DOMAIN SplitOnEnders(paragraph) |-> trim(SplitOnEnders(paragraph)[i]) ]

\* MorphologicalSentenceAnalyzer.splitIntoSentences
splitIntoSentences(paragraph) ==
  LET pieces == SplitOnEnders(paragraph)
      trimmed == [ i \in DOMAIN pieces |-> trim(pieces[i]) ]
  IN  SelectSeq(trimmed, LAMBDA s : Len(s) > 0)

\* the outcome of sentences.map over the per-sentence outcomes: the error of
\* the first sentence that raises, or the list of results
MapOutcome(outcomes) ==
  IF \E i \in DOMAIN outcomes : outcomes[i].raised
  THEN outcomes[CHOOSE i \in DOMAIN outcomes :
                  /\ outcomes[i].raised
                  /\ \A j \in 1..(i - 1) : ~ outcomes[j].raised]
  ELSE [raised |-> FALSE, value |-> [ i \in DOMAIN outcomes |-> outcomes[i].value ]]

\* MorphologicalSentenceAnalyzer.analyzeSentences
analyzeSentences(analyzers, sentences, options) ==
  MapOutcome([ i \in DOMAIN sentences |->
                 analyzeSentence(analyzers, Str(sentences[i]), options) ])

\* MorphologicalSentenceAnalyzer.analyzeParagraph
analyzeParagraph(analyzers, paragraph, options) ==
  IF NotANonEmptyString(paragraph)
  THEN [raised |-> TRUE, error |-> "Paragraph must be a non-empty string"]
  ELSE analyzeSentences(analyzers, splitIntoSentences(paragraph.chars), options)

\* the options getSummary passes, overlaid on the defaults of analyzeSentence
SummaryOptions ==
  [DefaultSentenceOptions EXCEPT !.includeConfidence = FALSE,
                                 !.includeAlternatives = FALSE,
                                 !.includeMorphology = FALSE]

\* what getSummary returns given what analyzeSentence returned or raised
SummaryOf(result) ==
  IF result.raised THEN result
  ELSE [raised |-> FALSE, value |-> result.value.statistics.partOfSpeechCounts]

\* MorphologicalSentenceAnalyzer.getSummary
getSummary(analyzers, sentence) ==
  SummaryOf(analyzeSentence(analyzers, sentence, SummaryOptions))

\* the options isValidEsperanto passes, overlaid on the defaults of analyzeSentence
ValidationOptions ==
  [DefaultSentenceOptions EXCEPT !.includeConfidence = TRUE,
                                 !.includeAlternatives = FALSE,
                                 !.includeMorphology = FALSE]

\* the default of the threshold parameter of isValidEsperanto, in hundredths
DefaultThreshold == 80

\* analysisRate > threshold, a rate equal to the threshold not accepted
RateExceeds(statistics, threshold) ==
  /\ statistics.totalWords > 0
  /\ 100 * statistics.analyzedWords > threshold * statistics.totalWords

\* analysisRate >= threshold for analysisRate = analyzedWords / totalWords and
\* a threshold in hundredths; 0 / 0 is NaN, which no comparison accepts
RateMeets(statistics, threshold) ==
  /\ statistics.totalWords > 0
  /\ 100 * statistics.analyzedWords >= threshold * statistics.totalWords

\* the comparison made on the counts, a sentence without words not set apart
ValidityOfCounts(result, threshold) ==
  IF result.raised THEN FALSE
  ELSE 100 * result.value.statistics.analyzedWords
         >= threshold * result.value.statistics.totalWords

\* what isValidEsperanto returns given what analyzeSentence returned or raised
ValidityOf(result, threshold) ==
  IF result.raised THEN FALSE
  ELSE RateMeets(result.value.statistics, threshold)

\* MorphologicalSentenceAnalyzer.isValidEsperanto
isValidEsperanto(analyzers, sentence, threshold) ==
  ValidityOf(analyzeSentence(analyzers, sentence, ValidationOptions), threshold)

(***************************************************************************)
(* The inputs of the model                                                  *)
(***************************************************************************)
\* longest generated stem
MaxStemLen == 3

\* largest number of pieces a generated sentence is put together from
MaxPieces == 2

\* the letters generated stems are written with
StemAlphabet == { "k", "i" }

\* every string of at most n letters of StemAlphabet
Stems(n) == UNION { [1..m -> StemAlphabet] : m \in 0..n }

\* the words of the test suite and words chosen for the borderline cases of the patterns
TestWords ==
  {
    <<"d","o","m","o">>, <<"d","o","m","o","j","n">>,
    <<"k","u","r","a","s">>, <<"k","u","r","i","s">>,
    <<"k","u","r","o","s">>, <<"k","u","r","u","s">>, <<"k","u","r","u">>,
    <<"k","u","r","i">>, <<"b","e","l","a">>, <<"r","a","p","i","d","e">>,
    <<"l","a">>, <<"L","A">>, <<"k","a","j">>, <<"h","o","!">>,
    <<"t","r","i">>, <<"e","n">>, <<"m","i">>,
    <<"n","o","t","a","w","o","r","d">>, <<"h","o","u","s","e">>,
    <<"b","e","a","u","t","i","f","u","l">>, <<"M","i">>,
    <<"a","m","a","s">>, <<"v","i","n">>, <<"L","a">>,
    <<"k","n","a","b","i","n","o">>, <<"k","a","n","t","a","s">>,
    <<"b","e","l","a","n">>, <<"h","u","n","d","o","n">>,
    <<"f","e","l","i","cx","a">>, <<"h","a","p","p","y">>, <<"T","h","e">>,
    <<"n","u","n">>, <<"k","i","u">>, <<"k","i","o">>, <<"k","i","e">>,
    <<"A","r","t","i","c","l","e">>, <<"N","o","u","n">>, <<"K","i","o">>,
    <<"cx","i"," ","t","i","u">>, <<"cx","i"," "," ","t","i","u","j","n">>,
    <<"k","u","r","a","n","t","a","j","n">>,
    <<"p","r","o","m","i","l","o","j">>, <<"p","a","r","o","j">>,
    <<"d","u","d","e","k">>, <<"d","u","a">>, <<"d","u","o","n","e">>,
    <<"k","i","u","o">>, <<"m","i","a">>, <<"m","i","a","j","n">>,
    <<"s","i","a","n">>, <<"m","i","n">>, <<"CX","I","O">>,
    <<"t","r","i","e">>, <<"x">>, <<"1","a">>,
    <<"s","k","r","i","b","i","t","e">>
  }

\* stems of the vocabulary, put in front of every ending
VocabularyStems ==
  {
    <<"d","o","m">>, <<"k","u","r">>, <<"b","e","l">>, <<"n","e","n","i">>,
    <<"cx","i">>, <<"h","u","n","d">>, <<"k","n","a","b","i","n">>,
    <<"m","i","l","i">>, <<"d","u">>, <<"t","r","i">>, <<"s","e","p">>,
    <<"d","e","k">>, <<"D","O","M">>, <<"m","i">>, <<"s","i">>,
    <<"i","l","i">>, <<"a","jx">>, <<"k","a","n","t","i","s","t">>,
    <<"t","i">>, <<"K","i">>, <<"D","D">>
  }

\* grammatical endings put behind every stem
Endings ==
  {
    <<>>, <<"o">>, <<"o","j">>, <<"o","n">>, <<"o","j","n">>, <<"a">>,
    <<"a","j">>, <<"a","n">>, <<"a","j","n">>, <<"e">>, <<"i">>,
    <<"a","s">>, <<"i","s">>, <<"o","s">>, <<"u","s">>, <<"u">>,
    <<"a","n","t","a">>, <<"a","n","t","a","j","n">>, <<"i","t","e">>,
    <<"o","t","o">>, <<"o","n","o">>, <<"o","b","l","e">>,
    <<"o","p","a","j","n">>, <<"O">>, <<"n">>, <<"j">>
  }

\* strings with surrounding white space, white-space-only strings and the empty string
PaddedWords ==
  {
    <<" ","d","o","m","o">>, <<"l","a"," ">>,
    <<"TAB"," ","k","i","u"," ","NL">>, <<" ">>, <<" ","TAB">>,
    <<" "," ","NL"," ">>, <<>>
  }

\* the pieces generated sentences are put together from
Pieces ==
  {
    <<"M","i">>, <<"k","i","u">>, <<"A","r","t","i","c","l","e">>,
    <<".">>, <<" ">>
  }

\* the sentences of the test suite and sentences with every punctuation character
TestSentences ==
  {
    <<"M","i"," ","a","m","a","s"," ","v","i","n",".">>,
    <<"L","a"," ","b","e","l","a"," ","k","n","a","b","i","n","o"," ","k","a","n","t","a","s",".">>,
    <<"M","i"," ","a","m","a","s"," ","l","a"," ","b","e","l","a","n"," ","h","u","n","d","o","n",".">>,
    <<"M","i"," ","e","s","t","a","s"," ","f","e","l","i","cx","a",".">>,
    <<"I"," ","a","m"," ","h","a","p","p","y",".">>,
    <<"T","h","e"," ","h","o","u","s","e"," ","i","s"," ","b","e","a","u","t","i","f","u","l",".">>,
    <<" "," "," ">>, <<" ","TAB","NL">>,
    <<"TAB","k","a","j",";","f","o","r",":","j","e","n","?","NL">>,
    <<"K","i","o"," ","e","s","t","a","s"," ","t","i","o",","," ","k","i","u"," ","v","e","n","a","s"," ","n","u","n","!">>,
    <<"s","e","s"," ","d","e","k"," ","t","r","i">>,
    <<"M","i"," ","A","r","t","i","c","l","e"," ","k","i","u",".">>
  }

\* every entry of the analyzers' vocabularies
Vocabulary ==
  Range(SPECIAL_ADVERBS) \cup Range(INTERJECTIONS) \cup Range(PREPOSITIONS)
    \cup Range(COMPOUND_PREPOSITIONS) \cup Range(CONJUNCTIONS)
    \cup Range(BASIC_NUMBERS) \cup Range(SPECIAL_NUMBERS)
    \cup Range(PERSONAL_PRONOUNS) \cup Range(SPECIAL_PRONOUNS)
    \cup generateCorrelatives

\* the strings passed as a word
Words ==
  { s \o e : s \in Stems(MaxStemLen) \cup VocabularyStems, e \in Endings }
    \cup Vocabulary \cup TestWords \cup PaddedWords

\* the values passed as a word
WordInputs ==
  { Str(w) : w \in Words } \cup { NonString(k) : k \in NonStringKinds }

\* the concatenation of a sequence of strings
RECURSIVE Concat(_)
Concat(ss) == IF ss = << >> THEN << >> ELSE Head(ss) \o Concat(Tail(ss))

\* the strings passed as a sentence
Sentences ==
  { Concat(ps) : ps \in UNION { [1..m -> Pieces] : m \in 0..MaxPieces } }
    \cup TestSentences

\* the values passed as a sentence
SentenceInputs ==
  { Str(s) : s \in Sentences } \cup { NonString(k) : k \in NonStringKinds }

\* paragraphs of several sentences, with runs of sentence-ending characters,
\* segments of white space only and a segment of other punctuation only
TestParagraphs ==
  {
    <<"M","i"," ","a","m","a","s"," ","v","i","n",".",".","."," ","k","i","u","?","!"," ","N","u","n",","," ","j","e","n"," ">>,
    <<"M","i","."," ","."," ",",",";"," ","!","k","a","j">>,
    <<".","?","!">>,
    <<" ",".","TAB","!","NL">>,
    <<"k","i","o"," ","v","e","n","a","s">>
  }

\* the values passed as a paragraph
ParagraphInputs ==
  { Str(p) : p \in Sentences \cup TestParagraphs }
    \cup { NonString(k) : k \in NonStringKinds }

\* the AnalysisOptions a caller passes to analyze and analyzeAll
WordOptions == { getDefaultOptions, EmptyOptions }

\* the SentenceAnalysisOptions a caller passes to analyzeSentence
SentenceOptions ==
  { DefaultSentenceOptions,
    [DefaultSentenceOptions EXCEPT !.includeAlternatives = TRUE],
    [DefaultSentenceOptions EXCEPT !.includeAlternatives = TRUE,
                                   !.maxAlternatives = 1,
                                   !.includeConfidence = FALSE],
    [DefaultSentenceOptions EXCEPT !.includeMorphology = FALSE,
                                   !.preserveCase = TRUE],
    [DefaultSentenceOptions EXCEPT !.includeAlternatives = TRUE,
                                   !.includeMorphology = FALSE],
    [DefaultSentenceOptions EXCEPT !.includeAlternatives = TRUE,
                                   !.maxAlternatives = 0] }

\* the threshold argument of isEsperantoSentence: left out, or given in hundredths
ThresholdInputs ==
  { [given |-> FALSE, value |-> 0] }
    \cup { [given |-> TRUE, value |-> t] : t \in { 0, 50, 80, 100 } }

\* the threshold isValidEsperanto works with
ThresholdOf(argument) ==
  IF argument.given THEN argument.value ELSE DefaultThreshold

(***************************************************************************)
(* The state of the package and of its caller                               *)
(***************************************************************************)
VARIABLES
  _wordAnalyzer,      \* the module-level MorphologicalAnalyzer, or null
  _sentenceAnalyzer,  \* the module-level MorphologicalSentenceAnalyzer, or null
  pc,                 \* "idle", or "returned" while the caller holds an outcome
  call,               \* the operation called last, its argument and options
  outcome             \* what that call returned, or the error it raised

vars == << _wordAnalyzer, _sentenceAnalyzer, pc, call, outcome >>

\* the value null of the two module-level variables
NullAnalyzer == [created |-> FALSE, analyzers |-> << >>]

\* MorphologicalAnalyzer.constructor
NewMorphologicalAnalyzer ==
  [created |-> TRUE, analyzers |-> ALL_MORPHOLOGICAL_ANALYZERS]

\* MorphologicalSentenceAnalyzer.constructor: the instance holds its own
\* MorphologicalAnalyzer, whose analyzer list is the state it reads
NewMorphologicalSentenceAnalyzer ==
  [created |-> TRUE, analyzers |-> NewMorphologicalAnalyzer.analyzers]

\* a getWordAnalyzer that rebuilds the instance without its first analyzer on
\* every call after the first
getWordAnalyzerRebuilt ==
  IF ~ _wordAnalyzer.created THEN NewMorphologicalAnalyzer
  ELSE [created |-> TRUE,
        analyzers |-> SelectSeq(_wordAnalyzer.analyzers,
                                LAMBDA tag : tag # ALL_MORPHOLOGICAL_ANALYZERS[1])]

\* getWordAnalyzer: the value of _wordAnalyzer after the call
getWordAnalyzer ==
  IF ~ _wordAnalyzer.created THEN NewMorphologicalAnalyzer ELSE _wordAnalyzer

\* getSentenceAnalyzer: the value of _sentenceAnalyzer after the call
getSentenceAnalyzer ==
  IF ~ _sentenceAnalyzer.created
  THEN NewMorphologicalSentenceAnalyzer
  ELSE _sentenceAnalyzer

NoOptions == [none |-> TRUE]

Init ==
  /\ _wordAnalyzer = NullAnalyzer
  /\ _sentenceAnalyzer = NullAnalyzer
  /\ pc = "idle"
  /\ call = [op |-> "none", arg |-> NonString("undefined"), options |-> NoOptions]
  /\ outcome = [raised |-> FALSE, value |-> FALSE]

\* a call of `op` with argument x and the given options returns or raises `result`
Returns(op, x, options, result) ==
  /\ pc' = "returned"
  /\ call' = [op |-> op, arg |-> x, options |-> options]
  /\ outcome' = result

\* analyzeWord(word)
AnalyzeWord ==
  /\ pc = "idle"
  /\ \E x \in WordInputs :
       Returns("analyzeWord", x, NoOptions,
               analyze(getWordAnalyzer.analyzers, x, getDefaultOptions))
  /\ _wordAnalyzer' = getWordAnalyzer
  /\ UNCHANGED _sentenceAnalyzer

\* analyzeWordAll(word)
AnalyzeWordAll ==
  /\ pc = "idle"
  /\ \E x \in WordInputs :
       Returns("analyzeWordAll", x, NoOptions,
               analyzeAll(getWordAnalyzer.analyzers, x, EmptyOptions))
  /\ _wordAnalyzer' = getWordAnalyzer
  /\ UNCHANGED _sentenceAnalyzer

\* isEsperantoWord(word)
IsEsperantoWord ==
  /\ pc = "idle"
  /\ \E x \in WordInputs :
       Returns("isEsperantoWord", x, NoOptions,
               [raised |-> FALSE,
                value |-> canAnalyze(getWordAnalyzer.analyzers, x)])
  /\ _wordAnalyzer' = getWordAnalyzer
  /\ UNCHANGED _sentenceAnalyzer

\* new MorphologicalAnalyzer().analyze(word, options)
Analyze ==
  /\ pc = "idle"
  /\ \E x \in WordInputs, options \in WordOptions :
       Returns("analyze", x, options,
               analyze(NewMorphologicalAnalyzer.analyzers, x, options))
  /\ UNCHANGED << _wordAnalyzer, _sentenceAnalyzer >>

\* new MorphologicalAnalyzer().analyzeAll(word, options)
AnalyzeAll ==
  /\ pc = "idle"
  /\ \E x \in WordInputs, options \in WordOptions :
       Returns("analyzeAll", x, options,
               analyzeAll(NewMorphologicalAnalyzer.analyzers, x, options))
  /\ UNCHANGED << _wordAnalyzer, _sentenceAnalyzer >>

\* analyzeSentence(sentence)
AnalyzeSentence ==
  /\ pc = "idle"
  /\ \E x \in SentenceInputs :
       Returns("analyzeSentence", x, DefaultSentenceOptions,
               analyzeSentence(getSentenceAnalyzer.analyzers, x,
                               DefaultSentenceOptions))
  /\ _sentenceAnalyzer' = getSentenceAnalyzer
  /\ UNCHANGED _wordAnalyzer

\* new MorphologicalSentenceAnalyzer().analyzeSentence(sentence, options)
SentenceAnalyze ==
  /\ pc = "idle"
  /\ \E x \in SentenceInputs, options \in SentenceOptions :
       Returns("MorphologicalSentenceAnalyzer.analyzeSentence", x, options,
               analyzeSentence(NewMorphologicalSentenceAnalyzer.analyzers, x,
                               options))
  /\ UNCHANGED << _wordAnalyzer, _sentenceAnalyzer >>

\* new MorphologicalSentenceAnalyzer().analyzeParagraph(paragraph, options)
SentenceAnalyzeParagraph ==
  /\ pc = "idle"
  /\ \E x \in ParagraphInputs, options \in SentenceOptions :
       Returns("MorphologicalSentenceAnalyzer.analyzeParagraph", x, options,
               analyzeParagraph(NewMorphologicalSentenceAnalyzer.analyzers, x,
                                options))
  /\ UNCHANGED << _wordAnalyzer, _sentenceAnalyzer >>

\* getPartOfSpeechSummary(sentence)
GetPartOfSpeechSummary ==
  /\ pc = "idle"
  /\ \E x \in SentenceInputs :
       Returns("getPartOfSpeechSummary", x, NoOptions,
               getSummary(getSentenceAnalyzer.analyzers, x))
  /\ _sentenceAnalyzer' = getSentenceAnalyzer
  /\ UNCHANGED _wordAnalyzer

\* isEsperantoSentence(sentence, threshold)
IsEsperantoSentence ==
  /\ pc = "idle"
  /\ \E x \in SentenceInputs, threshold \in ThresholdInputs :
       Returns("isEsperantoSentence", x, threshold,
               [raised |-> FALSE,
                value |-> isValidEsperanto(getSentenceAnalyzer.analyzers, x,
                                           ThresholdOf(threshold))])
  /\ _sentenceAnalyzer' = getSentenceAnalyzer
  /\ UNCHANGED _wordAnalyzer

\* the caller takes the outcome and is free to call again
Return ==
  /\ pc = "returned"
  /\ pc' = "idle"
  /\ call' = [op |-> "none", arg |-> NonString("undefined"), options |-> NoOptions]
  /\ outcome' = [raised |-> FALSE, value |-> FALSE]
  /\ UNCHANGED << _wordAnalyzer, _sentenceAnalyzer >>

Next ==
  \/ AnalyzeWord
  \/ AnalyzeWordAll
  \/ IsEsperantoWord
  \/ Analyze
  \/ AnalyzeAll
  \/ AnalyzeSentence
  \/ SentenceAnalyze
  \/ SentenceAnalyzeParagraph
  \/ GetPartOfSpeechSummary
  \/ IsEsperantoSentence
  \/ Return

Spec == Init /\ [][Next]_vars


(***************************************************************************)
(* Properties of the package, each stated over the call the caller holds    *)
(***************************************************************************)
\* the operation `op` has returned to the caller, normally or by raising
Returned(op) == pc = "returned" /\ call.op = op

\* `op` has returned normally from a call with a string argument
ReturnedValue(op) ==
  Returned(op) /\ call.arg.kind = "string" /\ ~ outcome.raised

\* the noun ending  "o" [+ "j"] [+ "n"]
NounEnding(j, n) ==
  <<"o">> \o (IF j THEN <<"j">> ELSE << >>) \o (IF n THEN <<"n">> ELSE << >>)

\* w is root + "o" [+ "j"] [+ "n"] for a root of at least two Esperanto letters
IsNounOf(w, root, j, n) ==
  /\ Len(root) >= 2
  /\ AllIn(root, EsperantoLetter)
  /\ w = root \o NounEnding(j, n)

\* analyzeWord answers the word w = root + ending as the noun the ending says
AnsweredAsNoun(root, j, n) ==
  /\ ~ outcome.raised
  /\ outcome.value.partOfSpeech = "Noun"
  /\ outcome.value.morphology.root = root
  /\ outcome.value.morphology.isPlural = j
  /\ outcome.value.morphology.isAccusative = n

\* the correlatives in -o that the confidence table ranks above a noun
NounShapedCorrelatives ==
  { <<"k","i","o">>, <<"t","i","o">>, <<"cx","i","o">>, <<"n","e","n","i","o">> }

\* C1 as the specification states it: every word root + "o" [+ "j"] [+ "n"]
\* with a root of at least two Esperanto letters is answered by analyzeWord as
\* a Noun with that root, plural exactly when the j is present and accusative
\* exactly when the n is present.
C1_EveryNounFormIsNoun ==
  (Returned("analyzeWord") /\ call.arg.kind = "string") =>
    LET w == call.arg.chars IN
      \A k \in 2..Len(w), j \in BOOLEAN, n \in BOOLEAN :
        IsNounOf(w, SubSeq(w, 1, k), j, n) => AnsweredAsNoun(SubSeq(w, 1, k), j, n)

\* C1, amended: the same holds for every such word that is not, letter case
\* aside, one of the correlatives kio, tio, cxio, nenio; those four are
\* answered as Pronoun, with the Noun reading as the first alternative.
C1_NounFormIsNounUnlessCorrelative ==
  (Returned("analyzeWord") /\ call.arg.kind = "string") =>
    LET w == call.arg.chars IN
      \A k \in 2..Len(w), j \in BOOLEAN, n \in BOOLEAN :
        IsNounOf(w, SubSeq(w, 1, k), j, n) =>
          IF toLowerCase(w) \in NounShapedCorrelatives
          THEN /\ ~ outcome.raised
               /\ outcome.value.partOfSpeech = "Pronoun"
               /\ Len(outcome.value.alternatives) >= 1
               /\ outcome.value.alternatives[1].partOfSpeech = "Noun"
          ELSE AnsweredAsNoun(SubSeq(w, 1, k), j, n)

\* analyzeWord("domojn") has answered Noun, root "dom", plural and accusative
C1_Witness ==
  /\ Returned("analyzeWord")
  /\ call.arg = Str(<<"d","o","m","o","j","n">>)
  /\ AnsweredAsNoun(<<"d","o","m">>, TRUE, TRUE)


\* the inputs the word and sentence operations reject: null, undefined, any
\* value that is not a string, the empty string and white space only
InvalidText(x) ==
  \/ x.kind # "string"
  \/ \A i \in DOMAIN x.chars : x.chars[i] \in WhiteSpace

\* the four operations that analyse one word
WordOperations == { "analyze", "analyzeAll", "analyzeWord", "analyzeWordAll" }

\* C2: analyze, analyzeAll, analyzeWord and analyzeWordAll raise exactly for
\* the inputs that are null, undefined, not a string, empty or white space
\* only, and return normally for every other string.
C2_WordOperationsRaiseExactlyOnInvalidInput ==
  (pc = "returned" /\ call.op \in WordOperations) =>
    (outcome.raised <=> InvalidText(call.arg))

\* analyzeWordAll has raised for a string of white space, and names the cause
C2_Witness ==
  /\ Returned("analyzeWordAll")
  /\ call.arg = Str(<<" ","TAB">>)
  /\ outcome.raised
  /\ outcome.error = "Word cannot be empty or only whitespace"

\* the two operations that analyse a sentence
SentenceOperations ==
  { "analyzeSentence", "MorphologicalSentenceAnalyzer.analyzeSentence" }

\* the result of analysing the token alone with the dispatcher
AloneResult(token) ==
  analyze(ALL_MORPHOLOGICAL_ANALYZERS, Str(token), getDefaultOptions)

\* C3: analyzeSentence raises exactly for the inputs that are null, undefined,
\* not a string, empty or white space only; for every other string it returns
\* a result with one word per token, and a token whose analysis fails is
\* Unknown in it while every other token keeps the part of speech it has when
\* analysed alone.
C3_SentenceRaisesOnlyOnInvalidInput ==
  (pc = "returned" /\ call.op \in SentenceOperations) =>
    /\ outcome.raised <=> InvalidText(call.arg)
    /\ ~ outcome.raised =>
         LET tokens == tokenize(trim(call.arg.chars))
             words == outcome.value.words
         IN  /\ Len(words) = Len(tokens)
             /\ \A i \in DOMAIN tokens :
                  /\ ~ AloneResult(tokens[i]).raised
                  /\ words[i].partOfSpeech =
                       AloneResult(tokens[i]).value.partOfSpeech

\* analyzeSentence("Mi Article kiu.") has returned three words: the factory
\* fails on the second token, which is Unknown, and the others are Pronoun
C3_Witness ==
  /\ Returned("analyzeSentence")
  /\ call.arg = Str(<<"M","i"," ","A","r","t","i","c","l","e"," ","k","i","u",".">>)
  /\ ~ outcome.raised
  /\ Len(outcome.value.words) = 3
  /\ outcome.value.words[1].partOfSpeech = "Pronoun"
  /\ outcome.value.words[2].partOfSpeech = "Unknown"
  /\ outcome.value.words[3].partOfSpeech = "Pronoun"
  /\ createWord(TagChars("Adverb"), outcome.value.words[2].word).threw


\* the ten part-of-speech tags an analyzer can answer
AnalyzerTags ==
  { "Noun", "Verb", "Adjective", "Adverb", "Article", "Conjunction",
    "Interjection", "Numeral", "Preposition", "Pronoun" }

\* the tags of the analyzers whose match predicate accepts w
MatchingTags(w) == { tag \in AnalyzerTags : Match(tag, w) }

\* C4: when no analyzer matches the trimmed word, analyze returns the
\* synthetic Unknown result: partOfSpeech Unknown, confidence 0, morphology
\* {root: the trimmed word, isPlural: false, isAccusative: false} and no
\* alternatives.
C4_UnmatchedWordIsUnknown ==
  \A op \in { "analyze", "analyzeWord" } :
    (ReturnedValue(op) /\ MatchingTags(trim(call.arg.chars)) = { }) =>
      /\ outcome.value.partOfSpeech = "Unknown"
      /\ outcome.value.confidence = 0
      /\ outcome.value.morphology =
           [root |-> trim(call.arg.chars), isPlural |-> FALSE, isAccusative |-> FALSE]
      /\ outcome.value.alternatives = << >>

\* analyzeWord("The") has returned the Unknown result with root "The"
C4_Witness ==
  /\ ReturnedValue("analyzeWord")
  /\ call.arg = Str(<<"T","h","e">>)
  /\ MatchingTags(<<"T","h","e">>) = { }
  /\ outcome.value.partOfSpeech = "Unknown"
  /\ outcome.value.morphology.root = <<"T","h","e">>

\* some analyzer's match predicate accepts w, each of the ten named
SomeAnalyzerMatches(w) ==
  \/ NounMatch(w)
  \/ VerbMatch(w)
  \/ AdjectiveMatch(w)
  \/ AdverbMatch(w)
  \/ ArticleMatch(w)
  \/ ConjunctionMatch(w)
  \/ InterjectionMatch(w)
  \/ NumeralMatch(w)
  \/ PrepositionMatch(w)
  \/ PronounMatch(w)

\* C5: isEsperantoWord (canAnalyze) never raises; it returns false for an
\* input that is not a string, is empty or is white space only, and otherwise
\* returns true exactly when at least one of the ten analyzers matches the
\* trimmed word.
C5_CanAnalyzeIsSomeMatch ==
  Returned("isEsperantoWord") =>
    /\ ~ outcome.raised
    /\ outcome.value =
         IF InvalidText(call.arg) THEN FALSE
         ELSE SomeAnalyzerMatches(trim(call.arg.chars))

\* isEsperantoWord(" la ") has returned true: only the Article analyzer
\* matches, and only once the white space is trimmed
C5_Witness ==
  /\ Returned("isEsperantoWord")
  /\ call.arg = Str(<<"l","a"," ">>)
  /\ ~ outcome.raised
  /\ outcome.value = TRUE
  /\ MatchingTags(<<"l","a">>) = { "Article" }
  /\ MatchingTags(<<"l","a"," ">>) = { }


\* the primary result of analyze followed by its alternatives
Ranking(result) == << result >> \o result.alternatives

\* the two operations that return the best analysis of one word
BestOperations == { "analyze", "analyzeWord" }

\* C6: for a word with two or more matching analyzers, the confidences of
\* the primary result followed by its alternatives never increase.
C6_RankingIsNonIncreasing ==
  \A op \in BestOperations :
    (ReturnedValue(op) /\ Cardinality(MatchingTags(trim(call.arg.chars))) >= 2) =>
      LET ranking == Ranking(outcome.value) IN
        /\ Len(ranking) >= 2
        /\ \A i \in 1..(Len(ranking) - 1) :
             ranking[i].confidence >= ranking[i + 1].confidence

\* analyzeWord("kiu") has returned Pronoun at 0.9 ahead of Verb at 0.8, though
\* the Verb analyzer is asked first
C6_Witness ==
  /\ ReturnedValue("analyzeWord")
  /\ call.arg = Str(<<"k","i","u">>)
  /\ MatchingTags(<<"k","i","u">>) = { "Verb", "Pronoun" }
  /\ outcome.value.partOfSpeech = "Pronoun"
  /\ outcome.value.confidence = 90
  /\ Len(outcome.value.alternatives) = 1
  /\ outcome.value.alternatives[1].partOfSpeech = "Verb"
  /\ outcome.value.alternatives[1].confidence = 80

\* C7: every result of analyze has at most three alternatives, every
\* alternative has no alternatives of its own, and no alternative has the
\* part of speech of the primary result.
C7_AlternativesAreFlatAndDistinct ==
  \A op \in BestOperations :
    ReturnedValue(op) =>
      LET alternatives == outcome.value.alternatives IN
        /\ Len(alternatives) <= 3
        /\ \A i \in DOMAIN alternatives :
             /\ alternatives[i].alternatives = << >>
             /\ alternatives[i].partOfSpeech # outcome.value.partOfSpeech

\* analyze("mia") has returned Adjective with the one alternative Pronoun,
\* which has no alternatives of its own
C7_Witness ==
  /\ ReturnedValue("analyze")
  /\ call.arg = Str(<<"m","i","a">>)
  /\ outcome.value.partOfSpeech = "Adjective"
  /\ Len(outcome.value.alternatives) = 1
  /\ outcome.value.alternatives[1].partOfSpeech = "Pronoun"
  /\ outcome.value.alternatives[1].alternatives = << >>


\* w is one or more Esperanto letters followed by one of the endings
LettersThen(w, endings) ==
  \E k \in 1..(Len(w) - 1) :
    /\ \A i \in 1..k : w[i] \in EsperantoLetter
    /\ SubSeq(w, k + 1, Len(w)) \in endings

\* the canonical shape of a tag: letters + o [+ j] [+ n] for Noun, letters +
\* as/is/os/us/u/i for Verb, letters + a [+ j] [+ n] for Adjective and
\* letters + e for Adverb
CanonicalShape(tag, w) ==
  CASE tag = "Noun" ->
         LettersThen(w, { <<"o">>, <<"o","j">>, <<"o","n">>, <<"o","j","n">> })
    [] tag = "Verb" ->
         LettersThen(w, { <<"a","s">>, <<"i","s">>, <<"o","s">>, <<"u","s">>,
                          <<"u">>, <<"i">> })
    [] tag = "Adjective" ->
         LettersThen(w, { <<"a">>, <<"a","j">>, <<"a","n">>, <<"a","j","n">> })
    [] tag = "Adverb" -> LettersThen(w, { <<"e">> })
    [] OTHER -> FALSE

\* the correlatives of the table: each beginning ki, ti, i, cxi, neni with
\* each ending u, o, a, e, al, am, om, el
ListedCorrelatives ==
  { b \o e : b \in Range(CORRELATIVE_BEGINNINGS), e \in Range(CORRELATIVE_ENDINGS) }

\* min(1.0, b + l + s) in hundredths, as the scoring rules state it
ExpectedScore(tag, w) ==
  LET lower == toLowerCase(w)
      b == IF tag = "Article" /\ lower = <<"l","a">> THEN 100
           ELSE IF tag = "Numeral" /\ lower \in Range(BASIC_NUMBERS) THEN 95
           ELSE IF tag = "Pronoun" /\ lower \in ListedCorrelatives THEN 90
           ELSE 50
      l == IF Len(w) > 5 /\ tag \in { "Verb", "Noun", "Adjective" } THEN 20 ELSE 0
      s == IF CanonicalShape(tag, w) THEN 30 ELSE 0
  IN  IF b + l + s > 100 THEN 100 ELSE b + l + s

\* the confidence of the result is the score of its tag on w and lies in [0, 1]
ScoredAsExpected(result, w) ==
  /\ result.confidence >= 0
  /\ result.confidence <= 100
  /\ result.partOfSpeech # "Unknown" =>
       result.confidence = ExpectedScore(result.partOfSpeech, w)

\* C8: the confidence of every matching analyzer's result is min(1.0, b + l + s)
\* with b = 1.0 for Article on "la", 0.95 for Numeral on one of the 15 basic
\* number roots, 0.9 for Pronoun on one of the 40 correlatives and 0.5
\* otherwise, l = 0.2 exactly for a Verb, Noun or Adjective longer than 5
\* characters, and s = 0.3 exactly for a Noun, Verb, Adjective or Adverb of
\* canonical shape; every confidence of a result lies in [0, 1], and
\* analyzeWord("la") is Article with confidence 1.0.
C8_ConfidenceIsClampedSum ==
  /\ Cardinality(Range(BASIC_NUMBERS)) = 15
  /\ Cardinality(ListedCorrelatives) = 40
  /\ \A op \in BestOperations :
       ReturnedValue(op) =>
         \A i \in DOMAIN Ranking(outcome.value) :
           ScoredAsExpected(Ranking(outcome.value)[i], trim(call.arg.chars))
  /\ \A op \in { "analyzeAll", "analyzeWordAll" } :
       ReturnedValue(op) =>
         \A i \in DOMAIN outcome.value :
           ScoredAsExpected(outcome.value[i], trim(call.arg.chars))
  /\ \A op \in SentenceOperations :
       ReturnedValue(op) =>
         \A i \in DOMAIN outcome.value.words :
           HasConfidence(outcome.value.words[i]) =>
             /\ outcome.value.words[i].confidence >= 0
             /\ outcome.value.words[i].confidence <= 100
  /\ (ReturnedValue("analyzeWord") /\ call.arg = Str(<<"l","a">>)) =>
       /\ outcome.value.partOfSpeech = "Article"
       /\ outcome.value.confidence = 100

\* analyzeWord("knabino") has returned Noun with 0.5 + 0.2 + 0.3 = 1.0
C8_Witness ==
  /\ ReturnedValue("analyzeWord")
  /\ call.arg = Str(<<"k","n","a","b","i","n","o">>)
  /\ outcome.value.partOfSpeech = "Noun"
  /\ outcome.value.confidence = 100
  /\ CanonicalShape("Noun", call.arg.chars)

\* the fixed order in which the analyzers are asked
IterationOrder ==
  << "Noun", "Verb", "Adjective", "Adverb", "Article",
     "Conjunction", "Interjection", "Numeral", "Preposition", "Pronoun" >>

\* the place of a tag in the iteration order
Place(tag) == CHOOSE i \in DOMAIN IterationOrder : IterationOrder[i] = tag

\* the matching tags of w whose score no other matching tag exceeds
TopScoring(w) ==
  { tag \in MatchingTags(w) :
      \A other \in MatchingTags(w) :
        ExpectedScore(other, w) <= ExpectedScore(tag, w) }

\* C9: matching analyzers of equal score are ranked in the iteration order
\* Noun, Verb, Adjective, Adverb, Article, Conjunction, Interjection, Numeral,
\* Preposition, Pronoun: the primary result is the earliest of the top-scoring
\* matches and equal-scored alternatives keep that order.
C9_TiesKeepIterationOrder ==
  \A op \in BestOperations :
    (ReturnedValue(op) /\ Cardinality(MatchingTags(trim(call.arg.chars))) >= 2) =>
      LET w == trim(call.arg.chars)
          ranking == Ranking(outcome.value)
      IN  /\ outcome.value.partOfSpeech \in TopScoring(w)
          /\ \A tag \in TopScoring(w) :
               Place(outcome.value.partOfSpeech) <= Place(tag)
          /\ \A i, j \in DOMAIN ranking :
               (i < j /\ ranking[i].confidence = ranking[j].confidence) =>
                 Place(ranking[i].partOfSpeech) < Place(ranking[j].partOfSpeech)

\* analyzeWord("for") has returned Adverb with the alternative Preposition,
\* both at 0.5
C9_Witness ==
  /\ ReturnedValue("analyzeWord")
  /\ call.arg = Str(<<"f","o","r">>)
  /\ MatchingTags(<<"f","o","r">>) = { "Adverb", "Preposition" }
  /\ outcome.value.partOfSpeech = "Adverb"
  /\ outcome.value.confidence = 50
  /\ Len(outcome.value.alternatives) = 1
  /\ outcome.value.alternatives[1].partOfSpeech = "Preposition"
  /\ outcome.value.alternatives[1].confidence = 50


\* the options the called operation hands to extractMorphology
OptionsOfCall == IF call.op = "analyzeAll" THEN call.options ELSE EmptyOptions

\* the tags of the analyzers that match w and whose extraction does not raise
ExtractableTags(w, options) ==
  { tag \in MatchingTags(w) : ~ extractMorphology(tag, w, options).threw }

\* C10: analyzeAll returns exactly one result for each analyzer that matches
\* the trimmed word and whose extraction does not raise, each with that
\* analyzer's part of speech, its heuristic confidence and no alternatives;
\* the results are sorted by non-increasing confidence, their number is not
\* capped, and the list is empty when no analyzer matches.
C10_AnalyzeAllListsEveryMatch ==
  \A op \in { "analyzeAll", "analyzeWordAll" } :
    ReturnedValue(op) =>
      LET w == trim(call.arg.chars)
          results == outcome.value
          expected == ExtractableTags(w, OptionsOfCall)
      IN  /\ Len(results) = Cardinality(expected)
          /\ { results[i].partOfSpeech : i \in DOMAIN results } = expected
          /\ \A i \in DOMAIN results :
               /\ results[i].confidence = ExpectedScore(results[i].partOfSpeech, w)
               /\ results[i].alternatives = << >>
          /\ \A i \in 1..(Len(results) - 1) :
               results[i].confidence >= results[i + 1].confidence
          /\ (MatchingTags(w) = { } => results = << >>)


\* the operations that return the best analysis of one word with the default options
DefaultWordCall ==
  \/ Returned("analyzeWord")
  \/ Returned("analyze") /\ call.options = getDefaultOptions

\* the returned morphology has the given root and mood
RootAndMood(lw, ending, mood) ==
  /\ outcome.value.morphology.mood = mood
  /\ outcome.value.morphology.root = SubSeq(lw, 1, Len(lw) - Len(ending))

\* the finite endings with the tense and the mood each one stands for
FiniteEndings ==
  { [ending |-> <<"a","s">>, tense |-> "present", mood |-> "indicative"],
    [ending |-> <<"i","s">>, tense |-> "past", mood |-> "indicative"],
    [ending |-> <<"o","s">>, tense |-> "future", mood |-> "indicative"],
    [ending |-> <<"u","s">>, tense |-> "conditional", mood |-> "conditional"],
    [ending |-> <<"i">>, tense |-> "infinitive", mood |-> "infinitive"] }

\* C11: for every word that analyze, with the default options, classifies as
\* Verb, the ending fixes the features: -as is present indicative, -is past
\* indicative, -os future indicative, -us conditional in tense and mood, -u
\* imperative in mood, -i infinitive in tense and mood, a participle suffix
\* participle in mood; the root is the lower-cased word without that ending.
C11_VerbFeaturesFollowEnding ==
  (DefaultWordCall /\ call.arg.kind = "string" /\ ~ outcome.raised
     /\ outcome.value.partOfSpeech = "Verb") =>
    LET lw == toLowerCase(trim(call.arg.chars)) IN
      /\ \A f \in FiniteEndings :
           endsWith(lw, f.ending) =>
             /\ outcome.value.morphology.tense = f.tense
             /\ RootAndMood(lw, f.ending, f.mood)
      /\ (endsWith(lw, <<"u">>) => RootAndMood(lw, <<"u">>, "imperative"))
      /\ \A p \in Range(PARTICIPLE_ENDINGS) :
           endsWith(lw, p) => RootAndMood(lw, p, "participle")
      /\ \/ \E f \in FiniteEndings : endsWith(lw, f.ending)
         \/ endsWith(lw, <<"u">>)
         \/ \E p \in Range(PARTICIPLE_ENDINGS) : endsWith(lw, p)

\* analyzeWord("skribite") has answered Verb, a participle with root "skrib"
C11_Witness ==
  /\ Returned("analyzeWord")
  /\ call.arg = Str(<<"s","k","r","i","b","i","t","e">>)
  /\ ~ outcome.raised
  /\ outcome.value.partOfSpeech = "Verb"
  /\ outcome.value.morphology.mood = "participle"
  /\ outcome.value.morphology.root = <<"s","k","r","i","b">>


\* a sentence operation has returned a SentenceAnalysisResult
SentenceReturned ==
  pc = "returned" /\ call.op \in SentenceOperations /\ ~ outcome.raised

\* the number of entries of words that are not Unknown
KnownWords(words) ==
  Cardinality({ i \in DOMAIN words : words[i].partOfSpeech # "Unknown" })

\* C12: in every SentenceAnalysisResult totalWords is the number of entries of
\* words, analyzedWords the number of entries that are not Unknown and
\* unknownWords their difference, so analyzedWords + unknownWords = totalWords.
C12_WordCountsAddUp ==
  SentenceReturned =>
    LET words == outcome.value.words
        statistics == outcome.value.statistics
    IN  /\ statistics.totalWords = Len(words)
        /\ statistics.analyzedWords = KnownWords(words)
        /\ statistics.unknownWords = statistics.totalWords - statistics.analyzedWords
        /\ statistics.analyzedWords + statistics.unknownWords = statistics.totalWords

\* a sentence of three words, two of them analysed, has returned its counts
C12_Witness ==
  /\ SentenceReturned
  /\ call.arg = Str(<<"M","i"," ","A","r","t","i","c","l","e"," ","k","i","u",".">>)
  /\ outcome.value.statistics.totalWords = 3
  /\ outcome.value.statistics.analyzedWords = 2
  /\ outcome.value.statistics.unknownWords = 1


\* the sum of the values of a mapping with finitely many keys
RECURSIVE SumOfValues(_)
SumOfValues(f) ==
  IF DOMAIN f = { } THEN 0
  ELSE LET k == CHOOSE k \in DOMAIN f : TRUE
       IN  f[k] + SumOfValues([ j \in DOMAIN f \ { k } |-> f[j] ])

\* the mapping from every tag in the sequence to the number of its occurrences
Occurrences(tags) ==
  [ tag \in Range(tags) |-> Cardinality({ i \in DOMAIN tags : tags[i] = tag }) ]

\* the part of speech each token of the sentence has when analysed alone
AloneTags(sentence) ==
  LET tokens == tokenize(trim(sentence)) IN
    [ i \in DOMAIN tokens |-> AloneResult(tokens[i]).value.partOfSpeech ]

\* C13: partOfSpeechCounts maps every tag that occurs among the words of the
\* sentence, Unknown included, to the number of its occurrences and has no
\* other key, so its values sum to totalWords; getSummary returns this very
\* mapping although it suppresses confidence, morphology and alternatives.
C13_CountsPerObservedTag ==
  /\ SentenceReturned =>
       LET words == outcome.value.words
           counts == outcome.value.statistics.partOfSpeechCounts
       IN  /\ counts = Occurrences([ i \in DOMAIN words |-> words[i].partOfSpeech ])
           /\ SumOfValues(counts) = outcome.value.statistics.totalWords
  /\ ReturnedValue("getPartOfSpeechSummary") =>
       outcome.value = Occurrences(AloneTags(call.arg.chars))

\* getPartOfSpeechSummary("Mi amas vin.") has returned two pronouns and a verb
C13_Witness ==
  /\ ReturnedValue("getPartOfSpeechSummary")
  /\ call.arg = Str(<<"M","i"," ","a","m","a","s"," ","v","i","n",".">>)
  /\ outcome.value = [Pronoun |-> 2, Verb |-> 1]


\* the sum of the confidences of all words that carry one, Unknown words included
RECURSIVE TotalConfidence(_)
TotalConfidence(words) ==
  IF words = << >> THEN 0
  ELSE (IF "confidence" \in DOMAIN Head(words) THEN Head(words).confidence ELSE 0)
         + TotalConfidence(Tail(words))

\* the number of words that carry a confidence
Confident(words) ==
  Cardinality({ i \in DOMAIN words : "confidence" \in DOMAIN words[i] })

KnownTokens(sentence) ==
  Cardinality({ i \in DOMAIN AloneTags(sentence) : AloneTags(sentence)[i] # "Unknown" })

\* C15: isValidEsperanto(sentence, threshold), threshold 0.8 when left out,
\* never raises; it is false for every input analyzeSentence rejects and
\* otherwise true exactly when analyzedWords / totalWords is at least the
\* threshold (a sentence without words has no such quotient and is not valid).
C15_ValidExactlyWhenRateMeetsThreshold ==
  Returned("isEsperantoSentence") =>
    /\ ~ outcome.raised
    /\ outcome.value <=>
         /\ ~ InvalidText(call.arg)
         /\ Len(AloneTags(call.arg.chars)) > 0
         /\ 100 * KnownTokens(call.arg.chars) >=
              (IF call.options.given THEN call.options.value ELSE 80)
                * Len(AloneTags(call.arg.chars))

\* two of the three words of "Mi Article kiu." are analysed: the sentence has
\* been accepted at threshold 0.5
C15_Witness ==
  /\ Returned("isEsperantoSentence")
  /\ call.arg = Str(<<"M","i"," ","A","r","t","i","c","l","e"," ","k","i","u",".">>)
  /\ call.options = [given |-> TRUE, value |-> 50]
  /\ outcome.value = TRUE


\* the characters that separate the tokens of a sentence
Separators == WhiteSpace \cup { ".", "!", "?", ";", ":", "," }

\* the longest prefix of s without a separator
RECURSIVE LeadingRun(_)
LeadingRun(s) ==
  IF s = << >> \/ Head(s) \in Separators THEN << >>
  ELSE << Head(s) >> \o LeadingRun(Tail(s))

\* the maximal runs of characters of s that are not separators, in order
RECURSIVE WordRuns(_)
WordRuns(s) ==
  IF s = << >> THEN << >>
  ELSE IF Head(s) \in Separators THEN WordRuns(Tail(s))
  ELSE << LeadingRun(s) >> \o WordRuns(SubSeq(s, Len(LeadingRun(s)) + 1, Len(s)))

\* C16: analyzeSentence returns in words one result per token, in token
\* order; surrounding the punctuation . ! ? ; : , with spaces, collapsing
\* white space, splitting and discarding the tokens of punctuation leaves the
\* maximal runs of other characters, so no analysed token is empty or
\* contains white space or one of those punctuation characters.
C16_OneResultPerToken ==
  SentenceReturned =>
    LET words == outcome.value.words
        tokens == WordRuns(call.arg.chars)
    IN  /\ Len(words) = Len(tokens)
        /\ \A i \in DOMAIN words :
             /\ words[i].word = tokens[i]
             /\ words[i].word # << >>
             /\ \A k \in DOMAIN words[i].word : words[i].word[k] \notin Separators

\* a sentence punctuated with ; : and ? between white space has returned its
\* three words in order
C16_Witness ==
  /\ SentenceReturned
  /\ call.arg = Str(<<"TAB","k","a","j",";","f","o","r",":","j","e","n","?","NL">>)
  /\ [ i \in DOMAIN outcome.value.words |-> outcome.value.words[i].word ]
       = << <<"k","a","j">>, <<"f","o","r">>, <<"j","e","n">> >>


\* C17: with preserveCase = true the word of every result is the token as it
\* stands in the sentence; with preserveCase = false, the default, it is the
\* lower-cased, trimmed token.
C17_WordFollowsPreserveCase ==
  SentenceReturned =>
    LET words == outcome.value.words
        tokens == WordRuns(call.arg.chars)
    IN  \A i \in DOMAIN words :
          words[i].word = IF call.options.preserveCase THEN tokens[i]
                          ELSE toLowerCase(trim(tokens[i]))


\* the result r and the results nested in its alternatives, two levels deep
WithNested(r) ==
  { r } \cup Range(r.alternatives)
      \cup UNION { Range(a.alternatives) : a \in Range(r.alternatives) }

\* every AnalysisResult of words, the nested alternatives included
AllResults(words) == UNION { WithNested(words[i]) : i \in DOMAIN words }

\* C18: with includeConfidence = false no AnalysisResult in words, nested
\* alternatives included, carries a confidence, and averageConfidence is 0;
\* with includeMorphology = false none of them carries a morphology.
C18_FiltersReachEveryResult ==
  SentenceReturned =>
    LET results == AllResults(outcome.value.words) IN
      /\ ~ call.options.includeConfidence =>
           /\ \A r \in results : "confidence" \notin DOMAIN r
           /\ outcome.value.statistics.averageConfidence.num = 0
      /\ ~ call.options.includeMorphology =>
           \A r \in results : "morphology" \notin DOMAIN r


\* every analysis of the token, best first
AllAnalysesOf(token) ==
  analyzeAll(NewMorphologicalSentenceAnalyzer.analyzers, Str(token), EmptyOptions).value

\* the analyses of the token ranked second to (limit + 1)-th
NextRanked(token, limit) ==
  LET all == AllAnalysesOf(token)
  IN  [ k \in 1..Min(limit, Len(all) - 1) |-> all[k + 1] ]

\* C19: with includeAlternatives false or unset every result of words has
\* empty alternatives; with includeAlternatives = true it has at most
\* maxAlternatives alternatives, the analyses of the token ranked next after
\* the primary one, in non-increasing order of confidence.
C19_AlternativesAreNextRanked ==
  SentenceReturned =>
    LET words == outcome.value.words
        tokens == WordRuns(call.arg.chars)
        options == call.options
    IN  \A i \in DOMAIN words :
          IF ~ options.includeAlternatives
          THEN words[i].alternatives = << >>
          ELSE LET alternatives == words[i].alternatives
                   all == AllAnalysesOf(tokens[i])
               IN  /\ Len(alternatives) <= options.maxAlternatives
                   /\ all # << >> =>
                        /\ alternatives = NextRanked(tokens[i], options.maxAlternatives)
                        /\ \A k \in DOMAIN alternatives :
                             all[k].confidence >= alternatives[k].confidence

\* with includeAlternatives = true "Kio estas tio, kiu venas nun!" has returned
\* Kio as Pronoun at 0.9 with its one other analysis, Noun at 0.8, as alternative
C19_Witness ==
  /\ SentenceReturned
  /\ call.arg = Str(<<"K","i","o"," ","e","s","t","a","s"," ","t","i","o",","," ","k","i","u"," ","v","e","n","a","s"," ","n","u","n","!">>)
  /\ call.options = [DefaultSentenceOptions EXCEPT !.includeAlternatives = TRUE]
  /\ outcome.value.words[1].partOfSpeech = "Pronoun"
  /\ outcome.value.words[1].confidence = 90
  /\ Len(outcome.value.words[1].alternatives) = 1
  /\ outcome.value.words[1].alternatives[1].partOfSpeech = "Noun"
  /\ outcome.value.words[1].alternatives[1].confidence = 80


\* what the first call of the operation with this argument returns or raises
FirstOutcome ==
  IF call.op = "analyzeWord"
  THEN analyze(NewMorphologicalAnalyzer.analyzers, call.arg, getDefaultOptions)
  ELSE analyzeSentence(NewMorphologicalSentenceAnalyzer.analyzers, call.arg,
                       DefaultSentenceOptions)

\* after any calls, analyzeWord and analyzeSentence return what their first call does
SameAsFirstCall ==
  (pc = "returned" /\ call.op \in { "analyzeWord", "analyzeSentence" }) =>
    outcome = FirstOutcome

\* no step replaces or changes a module-level analyzer that has been created
InstancesKept ==
  /\ _wordAnalyzer.created => _wordAnalyzer' = _wordAnalyzer
  /\ _sentenceAnalyzer.created => _sentenceAnalyzer' = _sentenceAnalyzer

RECURSIVE LeadingSegment(_)
LeadingSegment(s) ==
  IF s = << >> \/ Head(s) \in { ".", "!", "?" } THEN << >>
  ELSE << Head(s) >> \o LeadingSegment(Tail(s))

\* the maximal runs of characters of s other than . ! ?, trimmed, the ones
\* that are empty after trimming left out, in order
RECURSIVE Segments(_)
Segments(s) ==
  IF s = << >> THEN << >>
  ELSE IF Head(s) \in { ".", "!", "?" } THEN Segments(Tail(s))
  ELSE LET run == LeadingSegment(s)
           rest == Segments(SubSeq(s, Len(run) + 1, Len(s)))
       IN  IF trim(run) = << >> THEN rest ELSE << trim(run) >> \o rest

\* analyzeParagraph has been called and has returned or raised
ParagraphCalled ==
  pc = "returned" /\ call.op = "MorphologicalSentenceAnalyzer.analyzeParagraph"

\* C21: analyzeParagraph raises only when the paragraph is empty or not a
\* string; otherwise it returns, in segment order, one result per non-empty
\* trimmed segment between runs of . ! ?, each equal to what analyzeSentence
\* returns for the segment with the same options, and so an empty list when
\* there is no such segment.
C21_ParagraphIsItsSentences ==
  ParagraphCalled =>
    IF call.arg.kind # "string" \/ call.arg.chars = << >>
    THEN outcome.raised
    ELSE LET segments == Segments(call.arg.chars) IN
           /\ ~ outcome.raised
           /\ Len(outcome.value) = Len(segments)
           /\ \A i \in DOMAIN segments :
                LET alone == analyzeSentence(NewMorphologicalSentenceAnalyzer.analyzers,
                                             Str(segments[i]), call.options)
                IN  ~ alone.raised /\ outcome.value[i] = alone.value

\* a paragraph with runs of sentence-ending characters has returned the
\* analyses of its three segments "Mi amas vin", "kiu" and "Nun, jen"
C21_Witness ==
  /\ ParagraphCalled
  /\ call.arg = Str(<<"M","i"," ","a","m","a","s"," ","v","i","n",".",".","."," ","k","i","u","?","!"," ","N","u","n",","," ","j","e","n"," ">>)
  /\ ~ outcome.raised
  /\ [ i \in DOMAIN outcome.value |-> outcome.value[i].originalSentence ]
       = << <<"M","i"," ","a","m","a","s"," ","v","i","n">>,
            <<"k","i","u">>,
            <<"N","u","n",","," ","j","e","n">> >>
  /\ outcome.value[3].statistics.totalWords = 2


\* the parts of speech whose words never inflect
InvariableTags == { "Article", "Conjunction", "Interjection", "Preposition", "Adverb" }

\* every AnalysisResult the returned value holds, alternatives included
ReturnedResults ==
  IF pc # "returned" \/ outcome.raised THEN { }
  ELSE IF call.op \in BestOperations THEN WithNested(outcome.value)
  ELSE IF call.op \in { "analyzeAll", "analyzeWordAll" } THEN AllResults(outcome.value)
  ELSE IF call.op \in SentenceOperations THEN AllResults(outcome.value.words)
  ELSE IF call.op = "MorphologicalSentenceAnalyzer.analyzeParagraph"
  THEN UNION { AllResults(outcome.value[i].words) : i \in DOMAIN outcome.value }
  ELSE { }

\* C22: every result, primary or alternative, whose part of speech is
\* Article, Conjunction, Interjection, Preposition or Adverb has isPlural =
\* false and isAccusative = false in its morphology, whatever letters the
\* word ends in.
C22_InvariableWordsDoNotInflect ==
  \A r \in ReturnedResults :
    (r.partOfSpeech \in InvariableTags /\ "morphology" \in DOMAIN r) =>
      /\ r.morphology.isPlural = FALSE
      /\ r.morphology.isAccusative = FALSE

\* analyzeWordAll("jen") has returned an Interjection reading of a word
\* ending in n, neither plural nor accusative
C22_Witness ==
  /\ ReturnedValue("analyzeWordAll")
  /\ call.arg = Str(<<"j","e","n">>)
  /\ \E r \in ReturnedResults :
       /\ r.partOfSpeech = "Interjection"
       /\ r.morphology.isPlural = FALSE
       /\ r.morphology.isAccusative = FALSE


\* what a factory call that succeeds hands back, the value left open
FactorySucceeds == [threw |-> FALSE, instance |-> NullWord]

\* the result built for one match when the factory call succeeds
BuiltWithFactory(tag, confidence, w, options, alternatives) ==
  TryResult(extractMorphology(tag, w, options), FactorySucceeds,
            tag, confidence, w, alternatives)

\* what analyze returns for the trimmed word w when every factory call succeeds
BestWithFactory(w, options) ==
  LET matches == SortByConfidence(CollectMatches(ALL_MORPHOLOGICAL_ANALYZERS, w))
      others == Take(Tail(matches), 3)
      alternatives ==
        [ i \in DOMAIN others |->
            OrMinimalResult(BuiltWithFactory(others[i].analyzer, others[i].confidence,
                                             w, options, << >>),
                            others[i], w) ]
  IN  IF matches = << >> THEN createUnknownWordResult(w)
      ELSE OrUnknownWordResult(
             BuiltWithFactory(matches[1].analyzer, matches[1].confidence, w, options,
                              alternatives),
             w)

\* what analyzeAll returns for the trimmed word w when every factory call succeeds
AllWithFactory(w, options) ==
  LET built(tag) == BuiltWithFactory(tag, calculateConfidence(tag, w), w, options, << >>)
      tags == SelectSeq(ALL_MORPHOLOGICAL_ANALYZERS,
                        LAMBDA tag : Match(tag, w) /\ ~ built(tag).threw)
  IN  SortByConfidence([ i \in DOMAIN tags |-> built(tags[i]).value ])

\* the analysis decisions of one result: everything but the word value
DecisionsOf(r) ==
  [partOfSpeech |-> r.partOfSpeech,
   confidence |-> r.confidence,
   morphology |-> r.morphology]

\* the analysis decisions of a result and of its alternatives
Decisions(r) ==
  [primary |-> DecisionsOf(r),
   alternatives |-> [ i \in DOMAIN r.alternatives |-> DecisionsOf(r.alternatives[i]) ]]

\* the options analyze and analyzeAll work with in the returned call
WordOptionsOfCall ==
  IF call.op \in { "analyze", "analyzeAll" } THEN call.options
  ELSE IF call.op = "analyzeWord" THEN getDefaultOptions
  ELSE EmptyOptions

\* C24: the part of speech, confidence, morphology and alternatives that
\* analyze and analyzeAll return for a non-blank word are the ones they would
\* return if every call of the word-value factory succeeded.
C24_FactoryDecidesNothing ==
  /\ \A op \in BestOperations :
       ReturnedValue(op) =>
         Decisions(outcome.value)
           = Decisions(BestWithFactory(trim(call.arg.chars), WordOptionsOfCall))
  /\ \A op \in { "analyzeAll", "analyzeWordAll" } :
       ReturnedValue(op) =>
         LET expected == AllWithFactory(trim(call.arg.chars), WordOptionsOfCall) IN
           /\ Len(outcome.value) = Len(expected)
           /\ \A i \in DOMAIN expected :
                Decisions(outcome.value[i]) = Decisions(expected[i])


\* getPartOfSpeech() of a word value: the class name, Undefined for UndefinedWord
PartOfSpeechOfInstance(instance) ==
  IF instance.class = "UndefinedWord" THEN "Undefined" ELSE instance.class

\* the results, alternatives left aside, that a returned word operation holds
WordResults ==
  IF pc # "returned" \/ outcome.raised THEN { }
  ELSE IF call.op \in BestOperations THEN { outcome.value }
  ELSE IF call.op \in { "analyzeAll", "analyzeWordAll" } THEN Range(outcome.value)
  ELSE { }

\* C25: the wordInstance of every result of analyze or analyzeAll with a
\* recognized part of speech T for the word w is the word value of tag T and
\* surface string w: its getPartOfSpeech() is T and its value is w; the
\* wordInstance of an Unknown result is null.
C25_WordInstanceIsTaggedWord ==
  \A r \in WordResults :
    IF r.partOfSpeech = "Unknown" THEN r.wordInstance = NullWord
    ELSE /\ r.wordInstance # NullWord
         /\ PartOfSpeechOfInstance(r.wordInstance) = r.partOfSpeech
         /\ r.wordInstance.value = trim(call.arg.chars)


\* the fifteen basic number roots
BasicNumberRoots ==
  { <<"n","u","l">>, <<"u","n","u">>, <<"d","u">>, <<"t","r","i">>,
    <<"k","v","a","r">>, <<"k","v","i","n">>, <<"s","e","s">>, <<"s","e","p">>,
    <<"o","k">>, <<"n","a","ux">>, <<"d","e","k">>, <<"c","e","n","t">>,
    <<"m","i","l">>, <<"m","i","l","i","o","n">>, <<"m","i","l","i","a","r","d">> }

\* C26: for each of the fifteen basic number roots r, analyzeWord(r) returns
\* a Numeral with root r, numeralType cardinal, isPlural = false and
\* isAccusative = false.
C26_BasicNumbersAreCardinals ==
  (ReturnedValue("analyzeWord") /\ call.arg.chars \in BasicNumberRoots) =>
    /\ outcome.value.partOfSpeech = "Numeral"
    /\ outcome.value.morphology.root = call.arg.chars
    /\ outcome.value.morphology.numeralType = "cardinal"
    /\ outcome.value.morphology.isPlural = FALSE
    /\ outcome.value.morphology.isAccusative = FALSE


\* analyzeWord recognizes the string x: its result is not Unknown
Recognized(x) ==
  analyze(NewMorphologicalAnalyzer.analyzers, x, getDefaultOptions).value.partOfSpeech
    # "Unknown"

\* C27: for every non-blank word, isEsperantoWord (canAnalyze) returns true
\* exactly when the part of speech analyzeWord (analyze) returns for the same
\* word is not Unknown.
C27_CanAnalyzeIffRecognized ==
  (ReturnedValue("isEsperantoWord") /\ ~ InvalidText(call.arg)) =>
    (outcome.value <=> Recognized(call.arg))


\* what analyze, called without options, returns for the string x
BestOf(x) == analyze(NewMorphologicalAnalyzer.analyzers, x, getDefaultOptions).value

\* C28: for every non-blank word for which analyzeAll, called without
\* options, returns a non-empty list, its first element has the part of
\* speech, confidence and morphology of the primary result of analyze called
\* without options; and analyzeSentence with includeAlternatives = true
\* reports for every token the morphology it reports without it.
C28_AnalyzeAllAgreesWithAnalyze ==
  /\ (ReturnedValue("analyzeWordAll") /\ outcome.value # << >>) =>
       /\ outcome.value[1].partOfSpeech = BestOf(call.arg).partOfSpeech
       /\ outcome.value[1].confidence = BestOf(call.arg).confidence
       /\ outcome.value[1].morphology = BestOf(call.arg).morphology
  /\ (SentenceReturned /\ call.options.includeAlternatives
        /\ call.options.includeMorphology) =>
       LET without == analyzeSentence(NewMorphologicalSentenceAnalyzer.analyzers,
                                      call.arg,
                                      [call.options EXCEPT !.includeAlternatives = FALSE])
       IN  \A i \in DOMAIN outcome.value.words :
             outcome.value.words[i].morphology = without.value.words[i].morphology


\* a non-blank string of punctuation and white space only
OnlyPunctuation(x) ==
  /\ x.kind = "string"
  /\ ~ InvalidText(x)
  /\ \A i \in DOMAIN x.chars : x.chars[i] \in Separators

\* C29: for a non-blank sentence of the punctuation . ! ? ; : , and white
\* space only, analyzeSentence returns an empty words list, totalWords =
\* analyzedWords = unknownWords = 0, averageConfidence = 0 and an empty
\* partOfSpeechCounts, and isValidEsperanto returns false for every
\* threshold, 0 included.
C29_PunctuationOnlyHasNoWords ==
  /\ (pc = "returned" /\ call.op \in SentenceOperations /\ OnlyPunctuation(call.arg)) =>
       /\ ~ outcome.raised
       /\ outcome.value.words = << >>
       /\ outcome.value.statistics.totalWords = 0
       /\ outcome.value.statistics.analyzedWords = 0
       /\ outcome.value.statistics.unknownWords = 0
       /\ outcome.value.statistics.averageConfidence.num = 0
       /\ DOMAIN outcome.value.statistics.partOfSpeechCounts = { }
  /\ (pc = "returned" /\ call.op = "isEsperantoSentence" /\ OnlyPunctuation(call.arg)) =>
       outcome = [raised |-> FALSE, value |-> FALSE]

\* isEsperantoSentence(". ", 0) has returned false
C29_Witness ==
  /\ pc = "returned"
  /\ call.op = "isEsperantoSentence"
  /\ call.arg = Str(<<"."," ">>)
  /\ call.options = [given |-> TRUE, value |-> 0]
  /\ outcome = [raised |-> FALSE, value |-> FALSE]


\* the nine personal pronouns
PersonalPronouns ==
  { <<"m","i">>, <<"v","i">>, <<"l","i">>, <<"sx","i">>, <<"gx","i">>,
    <<"n","i">>, <<"i","l","i">>, <<"o","n","i">>, <<"s","i">> }

\* a personal pronoun followed by a, an optional j and an optional n
PossessiveForms ==
  { p \o <<"a">> \o j \o n :
      p \in PersonalPronouns, j \in { << >>, <<"j">> }, n \in { << >>, <<"n">> } }

\* a personal pronoun, bare or with the accusative n
PersonalForms == { p \o n : p \in PersonalPronouns, n \in { << >>, <<"n">> } }

\* the Pronoun readings, primary or alternative, analyzeWord has returned
PronounReadings ==
  IF ReturnedValue("analyzeWord")
  THEN { r \in WithNested(outcome.value) : r.partOfSpeech = "Pronoun" }
  ELSE { }

\* C30: the morphology the Pronoun analyzer extracts with includeFeatures =
\* true has isPossessive = true, isPersonal = false and pronounType =
\* possessive for every possessive form, and isPersonal = true, isPossessive
\* = false and pronounType = personal for every personal pronoun, bare or
\* with the accusative n.
C30_PossessiveAndPersonalForms ==
  \A r \in PronounReadings :
    /\ call.arg.chars \in PossessiveForms =>
         /\ r.morphology.isPossessive = TRUE
         /\ r.morphology.isPersonal = FALSE
         /\ r.morphology.pronounType = "possessive"
    /\ call.arg.chars \in PersonalForms =>
         /\ r.morphology.isPersonal = TRUE
         /\ r.morphology.isPossessive = FALSE
         /\ r.morphology.pronounType = "personal"

====
